---- MODULE Spec2Model ----
(***************************************************************************)
(* Model of the classification and rating engine of osh-dir-std-rs:        *)
(* the record tree (tree::create), the path classifier (Checker::cover,    *)
(* Checker::coverage), the rating (Coverage::rate, Rating::rate_coverage)  *)
(* and the best-fit selection (best_fit).                                   *)
(*                                                                         *)
(* Strings are sequences of one-character strings, so that the string      *)
(* operations of the code (insert, remove, split, regex match, replace)    *)
(* are computed and not assumed.                                           *)
(***************************************************************************)
EXTENDS Integers, Sequences, FiniteSets, TLC

(***************************************************************************)
(* Generic helpers on sequences.                                           *)
(***************************************************************************)
Range(f) == {f[x] : x \in DOMAIN f}

RECURSIVE Dedup(_)
\* keeps the first occurrence of every element
Dedup(q) ==
    IF q = <<>> THEN <<>>
    ELSE LET r == Dedup(SubSeq(q, 1, Len(q) - 1))
         IN IF q[Len(q)] \in Range(r) THEN r ELSE Append(r, q[Len(q)])

RECURSIVE SumSeq(_)
SumSeq(q) == IF q = <<>> THEN 0 ELSE Head(q) + SumSeq(Tail(q))

Perms(S) == {q \in [1..Cardinality(S) -> S] : Range(q) = S}

(***************************************************************************)
(* The regular expressions of the regex crate, for the syntax the          *)
(* standards use: literals, '.', '\' escapes, groups '(' ')' and '(?:' ')',*)
(* alternation '|', the greedy quantifiers '?', '*' and '+', and the       *)
(* anchors '^' and '$'.  A pattern p and a text s are sequences of         *)
(* characters.  Match...(p, lo, hi, s, i) is the sequence, in the          *)
(* preference order of a leftmost-first matcher, of the positions at which *)
(* a match of p[lo..hi-1] that starts at position i of s can end.          *)
(***************************************************************************)
RECURSIVE ScanClose(_, _, _)
ScanClose(p, j, depth) ==
    IF p[j] = "\\" THEN ScanClose(p, j + 2, depth)
    ELSE IF p[j] = "(" THEN ScanClose(p, j + 1, depth + 1)
    ELSE IF p[j] = ")"
         THEN IF depth = 1 THEN j ELSE ScanClose(p, j + 1, depth - 1)
    ELSE ScanClose(p, j + 1, depth)

\* one past the end of the atom that starts at p[lo]
AtomEnd(p, lo) ==
    IF p[lo] = "(" THEN ScanClose(p, lo + 1, 1) + 1
    ELSE IF p[lo] = "\\" THEN lo + 2
    ELSE lo + 1

RECURSIVE FirstBar(_, _, _)
\* the first '|' of p[j..hi-1] outside every group, 0 when there is none
FirstBar(p, j, hi) ==
    IF j >= hi THEN 0
    ELSE IF p[j] = "|" THEN j
    ELSE FirstBar(p, AtomEnd(p, j), hi)

RECURSIVE MatchAlt(_, _, _, _, _)
RECURSIVE MatchCat(_, _, _, _, _)
RECURSIVE MatchCatFrom(_, _, _, _, _)
RECURSIVE MatchStar(_, _, _, _, _)
RECURSIVE MatchStarFrom(_, _, _, _, _)

MatchLit(c, s, i) == IF i <= Len(s) /\ s[i] = c THEN <<i + 1>> ELSE <<>>

MatchAtom(p, lo, ae, s, i) ==
    IF p[lo] = "("
    THEN LET inner == IF lo + 2 < ae /\ p[lo + 1] = "?" /\ p[lo + 2] = ":"
                      THEN lo + 3 ELSE lo + 1
         IN MatchAlt(p, inner, ae - 1, s, i)
    ELSE IF p[lo] = "\\" THEN MatchLit(p[lo + 1], s, i)
    ELSE IF p[lo] = "." THEN IF i <= Len(s) /\ s[i] # "\n" THEN <<i + 1>> ELSE <<>>
    ELSE IF p[lo] = "^" THEN IF i = 1 THEN <<i>> ELSE <<>>
    ELSE IF p[lo] = "$" THEN IF i = Len(s) + 1 THEN <<i>> ELSE <<>>
    ELSE MatchLit(p[lo], s, i)

MatchStarFrom(p, lo, ae, s, ends) ==
    IF ends = <<>> THEN <<>>
    ELSE MatchStar(p, lo, ae, s, Head(ends)) \o MatchStarFrom(p, lo, ae, s, Tail(ends))

\* greedy: as many repetitions as possible first, none last
MatchStar(p, lo, ae, s, i) ==
    LET more == SelectSeq(MatchAtom(p, lo, ae, s, i), LAMBDA e : e > i)
    IN Dedup(MatchStarFrom(p, lo, ae, s, more) \o <<i>>)

MatchQuant(p, lo, ae, q, s, i) ==
    IF q = "?" THEN Dedup(MatchAtom(p, lo, ae, s, i) \o <<i>>)
    ELSE IF q = "*" THEN MatchStar(p, lo, ae, s, i)
    ELSE IF q = "+" THEN Dedup(MatchStarFrom(p, lo, ae, s, MatchAtom(p, lo, ae, s, i)))
    ELSE MatchAtom(p, lo, ae, s, i)

MatchCatFrom(p, rest, hi, s, ends) ==
    IF ends = <<>> THEN <<>>
    ELSE MatchCat(p, rest, hi, s, Head(ends)) \o MatchCatFrom(p, rest, hi, s, Tail(ends))

MatchCat(p, lo, hi, s, i) ==
    IF lo >= hi THEN <<i>>
    ELSE LET ae == AtomEnd(p, lo)
             q == IF ae < hi /\ p[ae] \in {"?", "*", "+"} THEN p[ae] ELSE ""
             rest == IF q = "" THEN ae ELSE ae + 1
         IN Dedup(MatchCatFrom(p, rest, hi, s, MatchQuant(p, lo, ae, q, s, i)))

MatchAlt(p, lo, hi, s, i) ==
    LET b == FirstBar(p, lo, hi)
    IN IF b = 0 THEN MatchCat(p, lo, hi, s, i)
       ELSE Dedup(MatchCat(p, lo, b, s, i) \o MatchAlt(p, b + 1, hi, s, i))

NoMatch == [start |-> 0, end |-> 0]

RECURSIVE FindFrom(_, _, _)
FindFrom(p, s, i) ==
    IF i > Len(s) + 1 THEN NoMatch
    ELSE LET ends == MatchAlt(p, 1, Len(p) + 1, s, i)
         IN IF ends # <<>> THEN [start |-> i, end |-> Head(ends)]
            ELSE FindFrom(p, s, i + 1)

\* the leftmost-first match of p in s: s[start..end-1], or NoMatch
Find(p, s) == FindFrom(p, s, 1)

(***************************************************************************)
(* Option<T>: None is the empty sequence, Some(v) the sequence <<v>>.      *)
(***************************************************************************)
None == <<>>
Some(v) == <<v>>
IsSome(o) == o # <<>>
Unwrap(o) == o[1]

(***************************************************************************)
(* String operations of the standard library that the code uses.           *)
(***************************************************************************)
EndsWith(s, c) == Len(s) > 0 /\ s[Len(s)] = c

IndexOf(s, c) ==
    IF \E i \in DOMAIN s : s[i] = c
    THEN CHOOSE i \in DOMAIN s : s[i] = c /\ \A j \in 1..(i - 1) : s[j] # c
    ELSE 0

RECURSIVE Split(_, _)
\* str::split(c): "src/" gives <<"src", "">>
Split(s, c) ==
    LET k == IndexOf(s, c)
    IN IF k = 0 THEN <<s>>
       ELSE <<SubSeq(s, 1, k - 1)>> \o Split(SubSeq(s, k + 1, Len(s)), c)

RECURSIVE Join(_, _)
Join(parts, sep) ==
    IF parts = <<>> THEN <<>>
    ELSE IF Len(parts) = 1 THEN parts[1]
    ELSE parts[1] \o sep \o Join(Tail(parts), sep)

\* String::remove(len - 1)
RemoveLast(s) == SubSeq(s, 1, Len(s) - 1)

\* String::insert_str(len - 1, t): t squeezes in before the last character
InsertBeforeLast(s, t) == SubSeq(s, 1, Len(s) - 1) \o t \o <<s[Len(s)]>>

\* PathBuf equality and hashing go by components: "parts/" and "parts" are
\* the same key
Components(s) == SelectSeq(Split(s, "/"), LAMBDA part : part # <<>>)

(***************************************************************************)
(* format::Rec and format::DirStd.  indicativeness is a rational <<n, d>>. *)
(***************************************************************************)
Rec(path, module, generated, arbitrary_content, indicativeness, variations, regex) ==
    [path |-> path,
     generated |-> generated,
     module |-> module,
     directory |-> EndsWith(path, "/"),
     arbitrary_content |-> arbitrary_content,
     indicativeness |-> indicativeness,
     variations |-> variations,
     regex |-> regex]

\* the value that stands for a panic of the code
Panic == <<"panic!">>

\* get_regex_str that prefers the regex to the variations
get_regex_str_regex_first(rec) ==
    IF IsSome(rec.regex) THEN Unwrap(rec.regex)
    ELSE IF IsSome(rec.variations)
    THEN <<"(">> \o Join(Unwrap(rec.variations), <<"|">>) \o <<")">>
    ELSE Panic

get_regex_str(rec) ==
    IF IsSome(rec.variations)
    THEN <<"(">> \o Join(Unwrap(rec.variations), <<"|">>) \o <<")">>
    ELSE IF IsSome(rec.regex) THEN Unwrap(rec.regex)
    ELSE Panic

RECURSIVE group_depth(_, _, _)
\* the number of groups of the pattern left open behind position i, -1 when
\* a group is closed that was not opened or an escape has nothing to escape
group_depth(rgx, i, depth) ==
    IF i > Len(rgx) THEN depth
    ELSE IF rgx[i] = "\\"
         THEN IF i = Len(rgx) THEN -1 ELSE group_depth(rgx, i + 2, depth)
    ELSE IF rgx[i] = "(" THEN group_depth(rgx, i + 1, depth + 1)
    ELSE IF rgx[i] = ")"
         THEN IF depth = 0 THEN -1 ELSE group_depth(rgx, i + 1, depth - 1)
    ELSE group_depth(rgx, i + 1, depth)

\* Regex::new(rgx).is_ok(), for the syntax the patterns of the model use:
\* every group is closed
regex_new_ok(rgx) == group_depth(rgx, 1, 0) = 0

(***************************************************************************)
(* tree::create.  A node is named by the path parts that lead to it from   *)
(* the root <<>>; its parent is the name without the last part.            *)
(***************************************************************************)
Node == [value |-> None, path_regex |-> None]

add_or_get_child(tree, parent, path_part) ==
    LET child == Append(parent, path_part)
    IN IF child \in DOMAIN tree THEN tree ELSE tree @@ (child :> Node)

path_parts(rec) ==
    LET pps == Split(rec.path, "/")
    IN IF rec.directory THEN RemoveLast(pps) ELSE pps

\* create without the sort: the records are inserted as the standard has them
unsorted(pp_recs) == pp_recs

RECURSIVE sort_by_len(_)
\* the stable sort of pp_recs by the number of path parts
sort_by_len(pp_recs) ==
    IF pp_recs = <<>> THEN <<>>
    ELSE LET init == sort_by_len(RemoveLast(pp_recs))
             x == pp_recs[Len(pp_recs)]
             k == Cardinality({i \in DOMAIN init : Len(init[i].pps) <= Len(x.pps)})
         IN SubSeq(init, 1, k) \o <<x>> \o SubSeq(init, k + 1, Len(init))

RECURSIVE add_path(_, _, _)
\* the nodes of the first k parts of pps, created where missing
add_path(tree, pps, k) ==
    IF k = 0 THEN tree
    ELSE add_or_get_child(add_path(tree, pps, k - 1), SubSeq(pps, 1, k - 1), pps[k])

RECURSIVE bind_ancestors_all(_, _, _)
\* bind_ancestors with a part for every ancestor: one without a record gives
\* its name
bind_ancestors_all(tree, anc, bnd_rgx_str) ==
    LET bound == IF IsSome(tree[anc].value)
                 THEN get_regex_str(Unwrap(tree[anc].value)) \o <<"/">> \o bnd_rgx_str
                 ELSE IF anc = <<>> THEN bnd_rgx_str
                 ELSE anc[Len(anc)] \o <<"/">> \o bnd_rgx_str
    IN IF anc = <<>> THEN bound ELSE bind_ancestors_all(tree, RemoveLast(anc), bound)

RECURSIVE bind_ancestors(_, _, _)
\* walks from anc up to the root and puts the pattern of every ancestor that
\* holds a record, and a '/', in front of bnd_rgx_str
bind_ancestors(tree, anc, bnd_rgx_str) ==
    LET bound == IF IsSome(tree[anc].value)
                 THEN get_regex_str(Unwrap(tree[anc].value)) \o <<"/">> \o bnd_rgx_str
                 ELSE bnd_rgx_str
    IN IF anc = <<>> THEN bound ELSE bind_ancestors(tree, RemoveLast(anc), bound)

anchor_whole(bnd_rgx_str) == <<"^", "(", "?", ":">> \o bnd_rgx_str \o <<")", "$">>

\* one round of the loop of create: acc is [tree, rec_nodes]
add_record(acc, pp_rec) ==
    LET pps == pp_rec.pps
        tree1 == add_path(acc.tree, pps, Len(pps))
        tree2 == [tree1 EXCEPT ![pps].value = Some(pp_rec.rec)]
        bnd == bind_ancestors(tree2, RemoveLast(pps), get_regex_str(pp_rec.rec))
    IN [tree |-> [tree2 EXCEPT ![pps].path_regex = Some(anchor_whole(bnd))],
        rec_nodes |-> Append(acc.rec_nodes, pps)]

RECURSIVE add_records(_, _)
add_records(acc, pp_recs) ==
    IF pp_recs = <<>> THEN acc
    ELSE add_records(add_record(acc, Head(pp_recs)), Tail(pp_recs))

pp_recs_of(records) == [i \in DOMAIN records |-> [pps |-> path_parts(records[i]), rec |-> records[i]]]

create(std_raw) ==
    add_records([tree |-> (<<>> :> Node), rec_nodes |-> <<>>],
                sort_by_len(pp_recs_of(std_raw.records)))

\* the second component of the result of create, with every node looked up
tree_recs_of(std_raw) ==
    LET made == create(std_raw)
    IN [i \in DOMAIN made.rec_nodes |-> made.tree[made.rec_nodes[i]]]

\* tree::create panics: get_regex_str does for a Record, or Regex::new
\* rejects a composed pattern
create_panics(std_raw) ==
    \/ \E i \in DOMAIN std_raw.records : get_regex_str(std_raw.records[i]) = Panic
    \/ \E n \in Range(tree_recs_of(std_raw)) : ~regex_new_ok(Unwrap(n.path_regex))

(***************************************************************************)
(* The pattern lists the Checker derives from the record nodes.            *)
(***************************************************************************)
widen_dir_rgx(rec_node) ==
    IF Unwrap(rec_node.value).directory
    THEN InsertBeforeLast(Unwrap(rec_node.path_regex), <<"/", ".", "*">>)
    ELSE Unwrap(rec_node.path_regex)

create_arbitrary_content_rgxs(tree_recs) ==
    LET picked == SelectSeq(tree_recs, LAMBDA n :
                      /\ IsSome(n.value)
                      /\ Unwrap(n.value).arbitrary_content = Some(TRUE)
                      /\ IsSome(n.path_regex))
    IN [i \in DOMAIN picked |-> widen_dir_rgx(picked[i])]

create_generated_content_rgxs(tree_recs) ==
    LET picked == SelectSeq(tree_recs, LAMBDA n :
                      /\ IsSome(n.value)
                      /\ Unwrap(n.value).generated
                      /\ IsSome(n.path_regex))
    IN [i \in DOMAIN picked |-> widen_dir_rgx(picked[i])]

module_rgx(rec_node) ==
    IF Unwrap(rec_node.value).directory
    THEN Append(RemoveLast(Unwrap(rec_node.path_regex)), "/")
    ELSE Unwrap(rec_node.path_regex)

\* The patterns are collected in a HashMap keyed by the hash of the pattern
\* string and read back in the map's iteration order, which differs from one
\* map to the next: every order of the set of patterns is a possible result.
create_module_rgxs(tree_recs) ==
    LET picked == SelectSeq(tree_recs, LAMBDA n :
                      /\ IsSome(n.value)
                      /\ Unwrap(n.value).module
                      /\ IsSome(n.path_regex))
    IN Perms({module_rgx(picked[i]) : i \in DOMAIN picked})

(***************************************************************************)
(* The standards of the model.  The weights of every standard are          *)
(* normalized as DirStandard::from_csv_reader leaves them: positive, with  *)
(* sum 1.                                                                  *)
(***************************************************************************)
s_src == <<"s", "r", "c">>
s_docs == <<"d", "o", "c", "s">>
s_parts == <<"p", "a", "r", "t", "s">>
s_gen == <<"g", "e", "n">>
s_doc == <<"d", "o", "c">>
s_res == <<"r", "e", "s">>
s_mod == <<"m", "o", "d">>
s_sub == <<"s", "u", "b">>
\* readme(\.md)?
rx_readme == <<"r", "e", "a", "d", "m", "e", "(", "\\", ".", "m", "d", ")", "?">>

\* src/ (0.5), docs/ (0.3), readme (0.2)
R_src == Rec(s_src \o <<"/">>, FALSE, FALSE, None, <<5, 10>>, Some(<<s_src>>), None)
R_docs == Rec(s_docs \o <<"/">>, FALSE, FALSE, None, <<3, 10>>, Some(<<s_docs>>), None)
R_readme == Rec(<<"r", "e", "a", "d", "m", "e">>, FALSE, FALSE, None, <<2, 10>>,
                None, Some(rx_readme))
StdPlain == [name |-> "plain", records |-> <<R_src, R_docs, R_readme>>]

\* parts/ is a module root; gen/ holds generated and arbitrary content and
\* has the nested record gen/doc; res/ holds arbitrary content
R_parts == Rec(s_parts \o <<"/">>, TRUE, FALSE, None, <<2, 10>>, Some(<<s_parts>>), None)
R_src3 == Rec(s_src \o <<"/">>, FALSE, FALSE, Some(FALSE), <<3, 10>>, Some(<<s_src>>), None)
R_gen == Rec(s_gen \o <<"/">>, FALSE, TRUE, Some(TRUE), <<1, 10>>, Some(<<s_gen>>), None)
R_gen_doc == Rec(s_gen \o <<"/">> \o s_doc, FALSE, FALSE, None, <<1, 10>>,
                 Some(<<s_doc, s_docs>>), None)
R_res == Rec(s_res \o <<"/">>, FALSE, FALSE, Some(TRUE), <<3, 10>>, Some(<<s_res>>), None)
StdParts == [name |-> "parts", records |-> <<R_gen_doc, R_parts, R_src3, R_gen, R_res>>]

\* two module roots, one below the other: both patterns match mod/sub/...
R_mod == Rec(s_mod \o <<"/">>, TRUE, FALSE, None, <<3, 10>>, Some(<<s_mod>>), None)
R_mod_sub == Rec(s_mod \o <<"/">> \o s_sub \o <<"/">>, TRUE, FALSE, None, <<2, 10>>,
                 Some(<<s_sub>>), None)
R_src5 == Rec(s_src \o <<"/">>, FALSE, FALSE, None, <<5, 10>>, Some(<<s_src>>), None)
StdNested == [name |-> "nested", records |-> <<R_mod, R_mod_sub, R_src5>>]

Stds == {StdPlain, StdParts, StdNested}

\* lic has both variations (lic) and a regex (licen.e)
s_lic == <<"l", "i", "c">>
rx_licence == <<"l", "i", "c", "e", "n", ".", "e">>
R_both == Rec(s_lic, FALSE, FALSE, None, <<5, 10>>, Some(<<s_lic>>), Some(rx_licence))
StdBoth == [name |-> "both", records |-> <<R_src, R_both>>]

\* lic has neither variations nor a regex
R_neither == Rec(s_lic, FALSE, FALSE, None, <<5, 10>>, None, None)
StdNeither == [name |-> "neither", records |-> <<R_src, R_neither>>]

\* the variation lic( makes the composed pattern ^(?:(lic())$
R_open == Rec(s_lic, FALSE, FALSE, None, <<5, 10>>, Some(<<s_lic \o <<"(">>>>), None)
StdOpen == [name |-> "open", records |-> <<R_src, R_open>>]

\* readme.md matches the patterns of two Records, readme(\.md)? and .*\.md
rx_any_md == <<".", "*", "\\", ".", "m", "d">>
R_any_md == Rec(<<"*", ".", "m", "d">>, FALSE, FALSE, None, <<3, 10>>, None, Some(rx_any_md))
StdTwice == [name |-> "twice", records |-> <<R_src, R_readme, R_any_md>>]

\* res/ and res/img/ both hold arbitrary content: res/img/x matches the
\* widened patterns of both, res/img the Record res/img/ and the widened
\* pattern of res/
s_img == <<"i", "m", "g">>
R_res5 == Rec(s_res \o <<"/">>, FALSE, FALSE, Some(TRUE), <<5, 10>>, Some(<<s_res>>), None)
R_res_img == Rec(s_res \o <<"/">> \o s_img \o <<"/">>, FALSE, FALSE, Some(TRUE), <<5, 10>>,
                 Some(<<s_img>>), None)
StdArb == [name |-> "arb", records |-> <<R_res5, R_res_img>>]

\* src/gen/doc has a Record and src/ has one, src/gen has none
R_src_gen_doc == Rec(s_src \o <<"/">> \o s_gen \o <<"/">> \o s_doc, FALSE, FALSE, None,
                     <<5, 10>>, Some(<<s_doc, s_docs>>), None)
StdGap == [name |-> "gap", records |-> <<R_src_gen_doc, R_src>>]

\* every entry of the top level is a module: the Record * is a module, is
\* no directory and has the regex .*
R_every == Rec(<<"*">>, TRUE, FALSE, None, <<5, 10>>, None, Some(<<".", "*">>))
StdEvery == [name |-> "every", records |-> <<R_src, R_every>>]

\* the standards tree::create panics for
Malformed == {StdNeither, StdOpen}
\* the standards a Checker can work with
Catalog == Stds \cup {StdBoth, StdTwice, StdArb, StdEvery}

\* the default pattern of ignored paths, (^|.*/)(\..+)$
DEFAULT_IGNORED_PATHS ==
    <<"(", "^", "|", ".", "*", "/", ")", "(", "\\", ".", ".", "+", ")", "$">>
\* the empty pattern
EmptyPattern == <<>>
IgnorePatterns == {DEFAULT_IGNORED_PATHS, EmptyPattern}

(***************************************************************************)
(* The listings of the model: the paths a listing is made of, per          *)
(* standard, and the paths that are regular files on disk (Path::is_file). *)
(***************************************************************************)
l_src_slash == <<"s", "r", "c", "/">>
l_src == <<"s", "r", "c">>
\* src in upper case
l_SRC == <<"S", "R", "C">>
l_main_rs == <<"s", "r", "c", "/", "m", "a", "i", "n", ".", "r", "s">>
l_docs_slash == <<"d", "o", "c", "s", "/">>
l_docs == <<"d", "o", "c", "s">>
l_readme_md == <<"r", "e", "a", "d", "m", "e", ".", "m", "d">>
l_random_txt == <<"r", "a", "n", "d", "o", "m", ".", "t", "x", "t">>
\* parts/widget-a/src/
l_widget_src == <<"p", "a", "r", "t", "s", "/", "w", "i", "d", "g", "e", "t", "-", "a",
                  "/", "s", "r", "c", "/">>
\* parts/src
l_parts_src == <<"p", "a", "r", "t", "s", "/", "s", "r", "c">>
\* parts/x/.git
l_parts_git == <<"p", "a", "r", "t", "s", "/", "x", "/", ".", "g", "i", "t">>
l_parts == <<"p", "a", "r", "t", "s">>
\* parts/x
l_parts_x == <<"p", "a", "r", "t", "s", "/", "x">>
l_gen_doc == <<"g", "e", "n", "/", "d", "o", "c">>
l_gen_x == <<"g", "e", "n", "/", "x">>
l_res_x == <<"r", "e", "s", "/", "x">>
l_git == <<".", "g", "i", "t">>
l_mod_sub_x == <<"m", "o", "d", "/", "s", "u", "b", "/", "x">>
l_mod_sub_src == <<"m", "o", "d", "/", "s", "u", "b", "/", "s", "r", "c">>
l_mod_src == <<"m", "o", "d", "/", "s", "r", "c">>
l_mod_x == <<"m", "o", "d", "/", "x">>
l_lic == <<"l", "i", "c">>
l_licence == <<"l", "i", "c", "e", "n", "c", "e">>
l_res_img == <<"r", "e", "s", "/", "i", "m", "g">>
l_res_img_x == <<"r", "e", "s", "/", "i", "m", "g", "/", "x">>

PathsOf(std_raw) ==
    IF std_raw = StdPlain
    THEN {l_src_slash, l_src, l_SRC, l_main_rs, l_docs_slash, l_docs, l_readme_md,
          l_random_txt}
    ELSE IF std_raw = StdParts
    THEN {l_widget_src, l_parts_src, l_parts_git, l_parts, l_parts_x, l_gen_doc, l_gen_x,
          l_res_x}
    ELSE IF std_raw = StdNested
    THEN {l_mod_sub_x, l_mod_sub_src, l_mod_src, l_mod_x, l_src, l_git, l_random_txt}
    ELSE IF std_raw = StdTwice
    THEN {l_src, l_readme_md, l_random_txt, l_git}
    ELSE IF std_raw = StdArb
    THEN {l_res_img, l_res_img_x, l_res_x, l_git}
    ELSE {l_src, l_lic, l_licence, l_git, l_random_txt}

AllPaths == UNION {PathsOf(std_raw) : std_raw \in Catalog}

\* every text a Checker can be handed: a path of a listing or what is left
\* of it when module roots were stripped
AllTexts == UNION {{SubSeq(p, i, Len(p)) : i \in 1..(Len(p) + 1)} : p \in AllPaths}

\* the file systems of the model: nothing is a regular file, or the paths
\* below that do not name a directory are
NoFiles == {}
SomeFiles == {l_main_rs, l_random_txt, l_readme_md, l_gen_x, l_res_x, l_mod_x, l_mod_sub_x,
              <<"x">>}
FileSystems == {NoFiles, SomeFiles}

(***************************************************************************)
(* Tables of what the pure functions above give on the values of the       *)
(* model, so that they are computed once.                                  *)
(***************************************************************************)
TreeRecsTable == [std_raw \in Catalog |-> tree_recs_of(std_raw)] @@ <<>>

tree_recs(std_raw) == TreeRecsTable[std_raw]

ModuleRgxSet(std_raw) == UNION {Range(o) : o \in create_module_rgxs(tree_recs(std_raw))}

AllRegexes ==
    IgnorePatterns
    \cup UNION {ModuleRgxSet(std_raw) : std_raw \in Catalog}
    \cup UNION {Range(create_arbitrary_content_rgxs(tree_recs(std_raw))) : std_raw \in Catalog}
    \cup UNION {Range(create_generated_content_rgxs(tree_recs(std_raw))) : std_raw \in Catalog}
    \cup UNION {{Unwrap(n.path_regex) : n \in Range(tree_recs(std_raw))} : std_raw \in Catalog}

FindTable == [x \in AllRegexes \X AllTexts |-> Find(x[1], x[2])] @@ <<>>

\* Regex::find
find(rgx, text) == FindTable[<<rgx, text>>]

\* Regex::is_match: the pattern matches somewhere in the text
is_match(rgx, text) == find(rgx, text).start # 0

\* Match::as_str
as_str(text, mtch) == SubSeq(text, mtch.start, mtch.end - 1)

\* the text of the first match (captures_iter.next, group 0)
match_str(rgx, text) == as_str(text, find(rgx, text))

\* the text without the match mtch
without(text, mtch) ==
    IF mtch.start = 0 THEN text
    ELSE SubSeq(text, 1, mtch.start - 1) \o SubSeq(text, mtch.end, Len(text))

\* Regex::replace(text, ""): the text without its first match
replace_first(rgx, text) == without(text, find(rgx, text))

(***************************************************************************)
(* Checker and Coverage.  The Checkers of a run form a tree: the root has  *)
(* the name <<>>, and the child for the module directory d of the Checker  *)
(* named k has the name Append(k, d).  `in` maps a Record to the paths that  *)
(* matched it.                                                             *)
(***************************************************************************)
new_checker ==
    [num_paths |-> 0,
     in |-> <<>>,
     ignored |-> <<>>,
     arbitrary_content |-> <<>>,
     generated_content |-> <<>>,
     out |-> <<>>,
     module_rgxs |-> None]

\* r#in.entry(rec).or_default().push(path); Records are equal when their
\* paths are
push_in(in, rec, path) ==
    IF \E r \in DOMAIN in : r.path = rec.path
    THEN LET r == CHOOSE r \in DOMAIN in : r.path = rec.path
         IN [in EXCEPT ![r] = Append(@, path)]
    ELSE in @@ (rec :> <<path>>)

\* cover_record that leaves the flag `matching` as it is
cover_record_unflagged(st, rec_node, path) ==
    IF IsSome(rec_node.path_regex) /\ is_match(Unwrap(rec_node.path_regex), path)
    THEN [c |-> [st.c EXCEPT !.in = push_in(@, Unwrap(rec_node.value), path)],
          matching |-> st.matching]
    ELSE st

\* one round of the loop over the record nodes: st is [c, matching], the
\* Checker and the flag `matching` of cover
cover_record(st, rec_node, path) ==
    IF IsSome(rec_node.path_regex) /\ is_match(Unwrap(rec_node.path_regex), path)
    THEN [c |-> [st.c EXCEPT !.in = push_in(@, Unwrap(rec_node.value), path)],
          matching |-> TRUE]
    ELSE st

RECURSIVE cover_records_first_only(_, _, _)
\* cover_records that leaves the loop at the first Record that matches
cover_records_first_only(st, nodes, path) ==
    IF nodes = <<>> \/ st.matching THEN st
    ELSE cover_records_first_only(cover_record(st, Head(nodes), path), Tail(nodes), path)

RECURSIVE cover_records(_, _, _)
\* the loop over the record nodes: the path is pushed to every Record whose
\* pattern matches it
cover_records(st, nodes, path) ==
    IF nodes = <<>> THEN st
    ELSE cover_records(cover_record(st, Head(nodes), path), Tail(nodes), path)

any_match(rgxs, path) == \E i \in DOMAIN rgxs : is_match(rgxs[i], path)

RECURSIVE push_each_match(_, _, _)
\* the path once for every pattern that matches it
push_each_match(paths, rgxs, path) ==
    IF rgxs = <<>> THEN paths
    ELSE push_each_match(IF is_match(Head(rgxs), path) THEN Append(paths, path) ELSE paths,
                         Tail(rgxs), path)

\* cover_arbitrary without the test of `matching` and without the break
\* that ends the loop at the first pattern that matches
cover_arbitrary_every(st, rgxs, path) ==
    IF any_match(rgxs, path)
    THEN [c |-> [st.c EXCEPT !.arbitrary_content = push_each_match(@, rgxs, path)],
          matching |-> TRUE]
    ELSE st

\* the arbitrary-content patterns are tried when no Record matched
cover_arbitrary(st, rgxs, path) ==
    IF ~st.matching /\ any_match(rgxs, path)
    THEN [c |-> [st.c EXCEPT !.arbitrary_content = Append(@, path)], matching |-> TRUE]
    ELSE st

\* cover_generated as the older Checker has it: tried only when nothing
\* matched before
cover_generated_unless_matching(st, rgxs, path) ==
    IF ~st.matching /\ any_match(rgxs, path)
    THEN [c |-> [st.c EXCEPT !.generated_content = Append(@, path)], matching |-> TRUE]
    ELSE st

\* the generated-content patterns are tried whatever matched before
cover_generated(st, rgxs, path) ==
    IF any_match(rgxs, path)
    THEN [c |-> [st.c EXCEPT !.generated_content = Append(@, path)], matching |-> TRUE]
    ELSE st

\* cover_out without the test of `matching`
cover_out_always(st, path) == [st.c EXCEPT !.out = Append(@, path)]

cover_out(st, path) ==
    IF ~st.matching THEN [st.c EXCEPT !.out = Append(@, path)] ELSE st.c

count_path(c) == [c |-> [c EXCEPT !.num_paths = @ + 1], matching |-> FALSE]

\* the part of cover that follows the module and ignore tests
cover_viable(c, nodes, path) ==
    cover_out(
        cover_generated(
            cover_arbitrary(
                cover_records(count_path(c), nodes, path),
                create_arbitrary_content_rgxs(nodes), path),
            create_generated_content_rgxs(nodes), path),
        path)

RECURSIVE first_match_from(_, _, _)
first_match_from(rgxs, path, i) ==
    IF i > Len(rgxs) THEN 0
    ELSE IF is_match(rgxs[i], path) THEN i
    ELSE first_match_from(rgxs, path, i + 1)

\* the index of the first pattern of rgxs that matches, 0 when none does
first_match(rgxs, path) == first_match_from(rgxs, path, 1)

\* the deepest Checker whose order of module patterns the model draws on
\* its own
MaxNest == 2

\* lazy-init module_rgxs: hash_orders[d] is the order in which a Checker at
\* depth d reads its module patterns back from the HashMap
init_module_rgxs(cks, key, hash_orders) ==
    IF IsSome(cks[key].module_rgxs) THEN cks
    ELSE [cks EXCEPT ![key].module_rgxs =
              Some(hash_orders[IF Len(key) < MaxNest THEN Len(key) ELSE MaxNest])]

\* or_insert that puts a new Checker in the place of the one that is there
or_insert_anew(cks, child) ==
    [k \in DOMAIN cks \cup {child} |-> IF k = child THEN new_checker ELSE cks[k]]

\* modules.entry(mod_dir).or_insert_with(Self::new)
or_insert(cks, child) == IF child \in DOMAIN cks THEN cks ELSE cks @@ (child :> new_checker)

\* cover_here without the return after the push to `ignored`
cover_here_counts_ignored(cks, std_raw, ignored_paths, key, dir_or_file) ==
    IF is_match(ignored_paths, dir_or_file)
    THEN [cks EXCEPT ![key].ignored = Append(@, dir_or_file), ![key].num_paths = @ + 1]
    ELSE [cks EXCEPT ![key] = cover_viable(@, tree_recs(std_raw), dir_or_file)]

\* the path is ignored or viable at the Checker named key
cover_here(cks, std_raw, ignored_paths, key, dir_or_file) ==
    IF is_match(ignored_paths, dir_or_file)
    THEN [cks EXCEPT ![key].ignored = Append(@, dir_or_file)]
    ELSE [cks EXCEPT ![key] = cover_viable(@, tree_recs(std_raw), dir_or_file)]

RECURSIVE cover(_, _, _, _, _, _)

cover_child(cks, std_raw, ignored_paths, child, sub_dir_or_file, hash_orders) ==
    cover(or_insert(cks, child), std_raw, ignored_paths, child, sub_dir_or_file, hash_orders)

\* cover_module without the return after the delegation: the path goes on to
\* the tests of the delegating Checker
cover_module_goes_on(cks, std_raw, ignored_paths, key, dir_or_file, hash_orders, mod_rgx) ==
    cover_child(cover_here(cks, std_raw, ignored_paths, key, dir_or_file),
                std_raw, ignored_paths,
                Append(key, Components(match_str(mod_rgx, dir_or_file))),
                replace_first(mod_rgx, dir_or_file), hash_orders)

\* the path matched mod_rgx: it goes, without the match, to the Checker of
\* the module directory
\* cover_module that counts the path at the delegating Checker too
cover_module_counts(cks, std_raw, ignored_paths, key, dir_or_file, hash_orders, mod_rgx) ==
    cover_child([cks EXCEPT ![key].num_paths = @ + 1], std_raw, ignored_paths,
                Append(key, Components(match_str(mod_rgx, dir_or_file))),
                replace_first(mod_rgx, dir_or_file), hash_orders)

cover_module(cks, std_raw, ignored_paths, key, dir_or_file, hash_orders, mod_rgx) ==
    cover_child(cks, std_raw, ignored_paths,
                Append(key, Components(match_str(mod_rgx, dir_or_file))),
                replace_first(mod_rgx, dir_or_file), hash_orders)

\* cover_at with the ignore test in front of the module test
cover_at_ignore_first(cks, std_raw, ignored_paths, key, dir_or_file, hash_orders, k) ==
    IF is_match(ignored_paths, dir_or_file)
    THEN [cks EXCEPT ![key].ignored = Append(@, dir_or_file)]
    ELSE IF k # 0
    THEN cover_module(cks, std_raw, ignored_paths, key, dir_or_file, hash_orders,
                      Unwrap(cks[key].module_rgxs)[k])
    ELSE cover_here(cks, std_raw, ignored_paths, key, dir_or_file)

cover_at(cks, std_raw, ignored_paths, key, dir_or_file, hash_orders, k) ==
    IF k # 0
    THEN cover_module(cks, std_raw, ignored_paths, key, dir_or_file, hash_orders,
                      Unwrap(cks[key].module_rgxs)[k])
    ELSE cover_here(cks, std_raw, ignored_paths, key, dir_or_file)

\* Checker::cover of the Checker named key, in the tree cks of Checkers
cover(cks, std_raw, ignored_paths, key, dir_or_file, hash_orders) ==
    LET cks1 == init_module_rgxs(cks, key, hash_orders)
    IN cover_at(cks1, std_raw, ignored_paths, key, dir_or_file, hash_orders,
                first_match(Unwrap(cks1[key].module_rgxs), dir_or_file))

\* Checker::coverage: the Coverage of every Checker of the tree, the nested
\* ones under the names of their module directories
coverage(cks) ==
    [key \in DOMAIN cks |->
        [num_paths |-> cks[key].num_paths,
         in |-> cks[key].in,
         ignored |-> cks[key].ignored,
         arbitrary_content |-> cks[key].arbitrary_content,
         generated_content |-> cks[key].generated_content,
         out |-> cks[key].out]]

RECURSIVE cover_all(_, _, _, _, _)
\* the loop of cover_listing_with
cover_all(cks, std_raw, ignored_paths, dirs_and_files, hash_orders) ==
    IF dirs_and_files = <<>> THEN cks
    ELSE cover_all(cover(cks, std_raw, ignored_paths, <<>>, Head(dirs_and_files), hash_orders),
                   std_raw, ignored_paths, Tail(dirs_and_files), hash_orders)

\* cover_listing_with: a fresh Checker covers the listing and gives its
\* Coverage
cover_listing_with(dirs_and_files, ignored_paths, std_raw, hash_orders) ==
    coverage(cover_all((<<>> :> new_checker), std_raw, ignored_paths, dirs_and_files,
                       hash_orders))

\* the keys of Coverage::modules of the Coverage named key
modules(cov, key) == {k \in DOMAIN cov : Len(k) = Len(key) + 1 /\ RemoveLast(k) = key}

(***************************************************************************)
(* Numbers of the rating: a rational n/d is the pair <<n, d>> in lowest    *)
(* terms; the result of a division by zero is NotANumber, and every        *)
(* operation on it gives it again.                                         *)
(***************************************************************************)
RECURSIVE Gcd(_, _)
Gcd(a, b) == IF b = 0 THEN a ELSE Gcd(b, a % b)

NotANumber == <<0, 0>>
Q(n, d) == IF d = 0 THEN NotANumber ELSE <<n \div Gcd(n, d), d \div Gcd(n, d)>>
QInt(n) == <<n, 1>>
QAdd(a, b) == Q(a[1] * b[2] + b[1] * a[2], a[2] * b[2])
QMul(a, b) == Q(a[1] * b[1], a[2] * b[2])
QDiv(a, b) == IF a[2] = 0 \/ b[2] = 0 THEN NotANumber ELSE Q(a[1] * b[2], a[2] * b[1])
\* a comparison with NotANumber is false
QLess(a, b) == a[2] # 0 /\ b[2] # 0 /\ a[1] * b[2] < b[1] * a[2]
QLeq(a, b) == a[2] # 0 /\ b[2] # 0 /\ a[1] * b[2] <= b[1] * a[2]

RECURSIVE QSum(_)
QSum(q) == IF q = <<>> THEN QInt(0) ELSE QAdd(Head(q), QSum(Tail(q)))

RECURSIVE SeqOfSet(_)
\* the elements of a set in some order (the iteration of a HashMap)
SeqOfSet(S) ==
    IF S = {} THEN <<>>
    ELSE LET x == CHOOSE x \in S : TRUE IN <<x>> \o SeqOfSet(S \ {x})

(***************************************************************************)
(* Coverage::rate and Rating::rate_coverage.  files is the set of the      *)
(* paths that Path::is_file finds to be regular files.                     *)
(***************************************************************************)
\* the Records of `in` with at least one path
matched_records(c) == {r \in DOMAIN c.in : c.in[r] # <<>>}

pos_rating(c) ==
    LET recs == SeqOfSet(matched_records(c))
    IN QSum([i \in DOMAIN recs |-> recs[i].indicativeness])

av_ind(std_raw) ==
    QDiv(QSum([i \in DOMAIN std_raw.records |-> std_raw.records[i].indicativeness]),
         QInt(Len(std_raw.records)))

num_out_files(c, files) == Cardinality({i \in DOMAIN c.out : c.out[i] \in files})

\* the rating of one Coverage without its modules
main_rating(c, std_raw, files) ==
    LET neg_rating == QMul(QInt(num_out_files(c, files)), av_ind(std_raw))
        total_rating == QAdd(pos_rating(c), neg_rating)
    IN IF QLess(QInt(0), total_rating)
       THEN QDiv(pos_rating(c), total_rating)
       ELSE pos_rating(c)

RECURSIVE rate_no_early(_, _, _, _)
\* rate without the early return for a Coverage that matched no Record
rate_no_early(cov, key, std_raw, files) ==
    LET mods == SeqOfSet(modules(cov, key))
        rating_parts ==
            <<[num_paths |-> cov[key].num_paths,
               part_rating |-> main_rating(cov[key], std_raw, files)]>>
            \o [i \in DOMAIN mods |->
                   [num_paths |-> cov[mods[i]].num_paths,
                    part_rating |-> rate_no_early(cov, mods[i], std_raw, files)]]
        num_combined_paths ==
            SumSeq([i \in DOMAIN rating_parts |-> rating_parts[i].num_paths])
    IN QSum([i \in DOMAIN rating_parts |->
               QMul(rating_parts[i].part_rating,
                    QDiv(QInt(rating_parts[i].num_paths), QInt(num_combined_paths)))])

\* rate without the modules
rate_own_only(cov, key, std_raw, files) ==
    IF matched_records(cov[key]) = {} THEN QInt(0)
    ELSE main_rating(cov[key], std_raw, files)

RECURSIVE rate(_, _, _, _)
\* Coverage::rate of the Coverage named key of the tree cov
rate(cov, key, std_raw, files) ==
    IF matched_records(cov[key]) = {} THEN QInt(0)
    ELSE LET mods == SeqOfSet(modules(cov, key))
             rating_parts ==
                 <<[num_paths |-> cov[key].num_paths,
                    part_rating |-> main_rating(cov[key], std_raw, files)]>>
                 \o [i \in DOMAIN mods |->
                        [num_paths |-> cov[mods[i]].num_paths,
                         part_rating |-> rate(cov, mods[i], std_raw, files)]]
             num_combined_paths ==
                 SumSeq([i \in DOMAIN rating_parts |-> rating_parts[i].num_paths])
         IN QSum([i \in DOMAIN rating_parts |->
                    QMul(rating_parts[i].part_rating,
                         QDiv(QInt(rating_parts[i].num_paths), QInt(num_combined_paths)))])

\* rate_coverage without the early return
rate_coverage_no_early(cov, key, std_raw) ==
    LET neg_rating == QMul(QInt(Len(cov[key].out)), av_ind(std_raw))
    IN QDiv(pos_rating(cov[key]), QAdd(pos_rating(cov[key]), neg_rating))

\* Rating::rate_coverage: every path of `out` counts, modules do not
rate_coverage(cov, key, std_raw) ==
    IF matched_records(cov[key]) = {} THEN QInt(0)
    ELSE LET neg_rating == QMul(QInt(Len(cov[key].out)), av_ind(std_raw))
         IN QDiv(pos_rating(cov[key]), QAdd(pos_rating(cov[key]), neg_rating))

(***************************************************************************)
(* best_fit: the first of the ratings with the highest factor.             *)
(***************************************************************************)
RECURSIVE best_fit_from_last(_, _)
\* best_fit_from with >= for >
best_fit_from_last(max_rating, ratings) ==
    IF ratings = <<>> THEN max_rating
    ELSE LET rating_cont == Head(ratings)
             next == IF IsSome(max_rating)
                     THEN IF QLeq(Unwrap(max_rating).rating.factor, rating_cont.rating.factor)
                          THEN Some(rating_cont)
                          ELSE max_rating
                     ELSE Some(rating_cont)
         IN best_fit_from_last(next, Tail(ratings))

RECURSIVE best_fit_from(_, _)
best_fit_from(max_rating, ratings) ==
    IF ratings = <<>> THEN max_rating
    ELSE LET rating_cont == Head(ratings)
             next == IF IsSome(max_rating)
                     THEN IF QLess(Unwrap(max_rating).rating.factor, rating_cont.rating.factor)
                          THEN Some(rating_cont)
                          ELSE max_rating
                     ELSE Some(rating_cont)
         IN best_fit_from(next, Tail(ratings))

\* best_fit as its doc comment has it: no rating with a factor above 0.0 is an error
best_fit_positive_only(ratings) ==
    LET max_rating == best_fit_from(None, ratings)
    IN IF IsSome(max_rating) /\ QLess(QInt(0), Unwrap(max_rating).rating.factor)
       THEN [ok |-> TRUE, value |-> Unwrap(max_rating)]
       ELSE [ok |-> FALSE, error |-> "NoneViable"]

\* Ok(rating) is [ok |-> TRUE, value |-> rating]
best_fit(ratings) ==
    LET max_rating == best_fit_from(None, ratings)
    IN IF IsSome(max_rating) THEN [ok |-> TRUE, value |-> Unwrap(max_rating)]
       ELSE [ok |-> FALSE, error |-> "NoneViable"]

(***************************************************************************)
(* The state: one run of cover_listing_with over a listing for one         *)
(* standard, rated in the end; and the input and result of best_fit.       *)
(***************************************************************************)
VARIABLES
    std,            \* the DirStd the Checker is for
    ignored_paths,  \* the pattern of the ignored paths
    listing,        \* the entries of the listing covered so far
    checkers,       \* the root Checker and the Checkers of its modules
    files,          \* the regular files rate found on disk
    rating_cont,    \* None, or Some(RatingCont) once the Coverage is rated
    ratings,        \* the ratings handed to best_fit
    best,           \* None, or Some(result of best_fit)
    phase,          \* "loaded": no Checker yet; "created": the root Checker
                    \* exists; "panicked": the process panicked
    STDS,           \* the catalog, in the order its HashMap iterates
    coverages,      \* None, or Some(result of cover_listing)
    pp_recs_left,   \* tree::create: the records the loop has still to insert
    records_tree,   \* tree::create: the tree and the record nodes so far
    lines,          \* the lines of the listing stream read so far
    visited_dirs_cache, \* DirsAdder: the paths seen, by their components
    emitted,        \* the entries dirs_and_files has given so far
    listing_res,    \* a listing whose entries are Ok(path) or Err(error)
    result,         \* None, or Some(what cover_listing(_with) returned)
    call_stack      \* the cover calls that have not returned, the outermost first

vars == <<std, ignored_paths, listing, checkers, files, rating_cont, ratings, best, phase,
          STDS, coverages, pp_recs_left, records_tree, lines, visited_dirs_cache, emitted,
          listing_res, result, call_stack>>

\* the variables of tree::create, of the listing pre-processor and of the
\* listings with errors
more_vars == <<pp_recs_left, records_tree, lines, visited_dirs_cache, emitted, listing_res, result,
               call_stack>>

\* nothing of them is in use
MoreUnused ==
    /\ pp_recs_left = <<>>
    /\ records_tree = None
    /\ lines = <<>>
    /\ visited_dirs_cache = {}
    /\ emitted = <<>>
    /\ listing_res = <<>>
    /\ result = None
    /\ call_stack = <<>>

\* the longest listing, the scenarios apart
MaxListing == 2

\* the listings of the end-to-end scenario: directories with and without a
\* trailing separator
ListingSlash == <<l_src_slash, l_main_rs, l_docs_slash, l_readme_md, l_random_txt>>
ListingPlain == <<l_src, l_main_rs, l_docs, l_readme_md, l_random_txt>>
Scenarios(std_raw) == IF std_raw = StdPlain THEN {ListingSlash, ListingPlain} ELSE {}

IsPrefix(q, r) == Len(q) <= Len(r) /\ SubSeq(r, 1, Len(q)) = q

CanFeed(fed, dir_or_file) ==
    \/ Len(fed) < MaxListing
    \/ \E sc \in Scenarios(std) : IsPrefix(Append(fed, dir_or_file), sc)

HashOrders(std_raw) == [0..MaxNest -> create_module_rgxs(tree_recs(std_raw))]

Init ==
    /\ std \in Stds
    /\ ignored_paths \in IgnorePatterns
    /\ listing = <<>>
    /\ checkers = (<<>> :> new_checker)
    /\ files = {}
    /\ rating_cont = None
    /\ ratings = <<>>
    /\ best = None
    /\ phase = "created"
    /\ STDS = <<>>
    /\ coverages = None
    /\ MoreUnused

\* one round of the loop of cover_listing_with: the next entry is covered
CoverNext ==
    /\ rating_cont = None
    /\ \E dir_or_file \in PathsOf(std), hash_orders \in HashOrders(std) :
        /\ CanFeed(listing, dir_or_file)
        /\ checkers' = cover(checkers, std, ignored_paths, <<>>, dir_or_file, hash_orders)
        /\ listing' = Append(listing, dir_or_file)
    /\ UNCHANGED <<std, ignored_paths, files, rating_cont, ratings, best, phase, STDS, coverages>>
    /\ UNCHANGED more_vars

\* rate_listing_with: the listing is at its end, the Checker gives its
\* Coverage and the Coverage is rated by Coverage::rate
RateListingWith ==
    /\ rating_cont = None
    /\ \E fs \in FileSystems :
        /\ files' = fs
        /\ rating_cont' =
               Some([rating |-> [name |-> std.name,
                                 factor |-> rate(coverage(checkers), <<>>, std, fs)],
                     coverage |-> Some(coverage(checkers)),
                     by |-> "rate"])
    /\ UNCHANGED <<std, ignored_paths, listing, checkers, ratings, best, phase, STDS, coverages>>
    /\ UNCHANGED more_vars

\* the BestFit arm of cover_listing_by_stds: the Coverage is rated by
\* Rating::rate_coverage
RateCoverage ==
    /\ rating_cont = None
    /\ rating_cont' =
           Some([rating |-> [name |-> std.name,
                             factor |-> rate_coverage(coverage(checkers), <<>>, std)],
                 coverage |-> Some(coverage(checkers)),
                 by |-> "rate_coverage"])
    /\ UNCHANGED <<std, ignored_paths, listing, checkers, files, ratings, best, phase, STDS,
                   coverages>>
    /\ UNCHANGED more_vars

Next == CoverNext \/ RateListingWith \/ RateCoverage

Spec == Init /\ [][Next]_vars

(***************************************************************************)
(* best_fit on its own: the ratings are any list of at most MaxRatings     *)
(* RatingConts.                                                            *)
(***************************************************************************)
MaxRatings == 3

StdNames == {"plain", "parts"}
Factors == {<<0, 1>>, <<1, 2>>, <<1, 1>>}
RatingConts == {[rating |-> [name |-> n, factor |-> f], coverage |-> None] :
                    n \in StdNames, f \in Factors}
RatingLists == UNION {[1..n -> RatingConts] : n \in 0..MaxRatings}

InitBestFit ==
    /\ std = StdPlain
    /\ ignored_paths = DEFAULT_IGNORED_PATHS
    /\ listing = <<>>
    /\ checkers = (<<>> :> new_checker)
    /\ files = {}
    /\ rating_cont = None
    /\ ratings \in RatingLists
    /\ best = None
    /\ phase = "created"
    /\ STDS = <<>>
    /\ coverages = None
    /\ MoreUnused

BestFit ==
    /\ best = None
    /\ best' = Some(best_fit(ratings))
    /\ UNCHANGED <<std, ignored_paths, listing, checkers, files, rating_cont, ratings, phase,
                   STDS, coverages>>
    /\ UNCHANGED more_vars

NextBestFit == BestFit

SpecBestFit == InitBestFit /\ [][NextBestFit]_vars

(***************************************************************************)
(* From a standard of the catalog to the first cover calls: the Checker is *)
(* created and then fed a listing.  The standards are the well-formed      *)
(* ones and the ones tree::create panics for.                              *)
(***************************************************************************)
LoadStds == {StdPlain, StdParts, StdBoth, StdTwice, StdArb} \cup Malformed

\* Checker::new with tree::create called at once
Checker_new_eager(std_raw, ignored) ==
    IF create_panics(std_raw) THEN [panic |-> TRUE] ELSE [panic |-> FALSE, checker |-> new_checker]

\* Checker::new: every part that is made lazily is None, the records tree
\* too; nothing of the standard is read
Checker_new(std_raw, ignored) == [panic |-> FALSE, checker |-> new_checker]

InitLoad ==
    /\ std \in LoadStds
    /\ ignored_paths \in IgnorePatterns
    /\ listing = <<>>
    /\ checkers = <<>>
    /\ files = {}
    /\ rating_cont = None
    /\ ratings = <<>>
    /\ best = None
    /\ phase = "loaded"
    /\ STDS = <<>>
    /\ coverages = None
    /\ MoreUnused

NewChecker ==
    /\ phase = "loaded"
    /\ IF Checker_new(std, ignored_paths).panic
       THEN phase' = "panicked" /\ UNCHANGED checkers
       ELSE phase' = "created" /\ checkers' = (<<>> :> Checker_new(std, ignored_paths).checker)
    /\ UNCHANGED <<std, ignored_paths, listing, files, rating_cont, ratings, best, STDS, coverages>>
    /\ UNCHANGED more_vars

\* a cover call on the root Checker: records_tree.get_or_insert_with runs
\* tree::create in the first call, before anything else
CoverLoaded ==
    /\ phase = "created"
    /\ Len(listing) < MaxListing
    /\ \E dir_or_file \in PathsOf(std) :
        IF listing = <<>> /\ create_panics(std)
        THEN phase' = "panicked" /\ UNCHANGED <<listing, checkers>>
        ELSE \E hash_orders \in HashOrders(std) :
                /\ checkers' = cover(checkers, std, ignored_paths, <<>>, dir_or_file,
                                     hash_orders)
                /\ listing' = Append(listing, dir_or_file)
                /\ phase' = phase
    /\ UNCHANGED <<std, ignored_paths, files, rating_cont, ratings, best, STDS, coverages>>
    /\ UNCHANGED more_vars

NextLoad == NewChecker \/ CoverLoaded

SpecLoad == InitLoad /\ [][NextLoad]_vars

(***************************************************************************)
(* The calls that work on every standard of the catalog: cover_listing,    *)
(* rate_listing and the BestFit arms of cover_listing_by_stds and of       *)
(* rate_listing_by_stds.  draws[i] is the hash_orders of the Checker of    *)
(* the i-th standard.  A Coverage carries its standard.                    *)
(***************************************************************************)
\* Checker::new_all
new_all(stds) == [i \in DOMAIN stds |-> (<<>> :> new_checker)]

\* the inner loop of cover_listing: every Checker covers the path
cover_by_all(cks_all, stds, ignored, dir_or_file, draws) ==
    [i \in DOMAIN cks_all |-> cover(cks_all[i], stds[i], ignored, <<>>, dir_or_file, draws[i])]

RECURSIVE cover_listing_loop(_, _, _, _, _)
\* the outer loop of cover_listing
cover_listing_loop(cks_all, stds, ignored, dirs_and_files, draws) ==
    IF dirs_and_files = <<>> THEN cks_all
    ELSE cover_listing_loop(cover_by_all(cks_all, stds, ignored, Head(dirs_and_files), draws),
                            stds, ignored, Tail(dirs_and_files), draws)

coverages_of(cks_all, stds) ==
    [i \in DOMAIN cks_all |-> [std |-> stds[i], cov |-> coverage(cks_all[i])]]

cover_listing(dirs_and_files, ignored, stds, draws) ==
    coverages_of(cover_listing_loop(new_all(stds), stds, ignored, dirs_and_files, draws), stds)

\* the loop of rate_listing over the Coverages
rated_by_rate(covs, fs) ==
    [i \in DOMAIN covs |->
        [rating |-> [name |-> covs[i].std.name,
                     factor |-> rate(covs[i].cov, <<>>, covs[i].std, fs)],
         coverage |-> Some(covs[i])]]

rate_listing(dirs_and_files, ignored, stds, draws, fs) ==
    rated_by_rate(cover_listing(dirs_and_files, ignored, stds, draws), fs)

\* the map over the Coverages in the BestFit arm of cover_listing_by_stds
rated_by_rate_coverage(covs) ==
    [i \in DOMAIN covs |->
        [rating |-> [name |-> covs[i].std.name,
                     factor |-> rate_coverage(covs[i].cov, <<>>, covs[i].std)],
         coverage |-> Some(covs[i])]]

\* `?`, then vec![max_rating.coverage.expect(..)]
vec_of_coverage(max_rating) ==
    IF max_rating.ok THEN [ok |-> TRUE, value |-> <<Unwrap(max_rating.value.coverage)>>]
    ELSE max_rating

\* `?`, then vec![max_rating]
vec_of_rating(max_rating) ==
    IF max_rating.ok THEN [ok |-> TRUE, value |-> <<max_rating.value>>] ELSE max_rating

\* cover_listing_by_stds(.., Standards::BestFit)
cover_listing_by_stds(dirs_and_files, ignored, stds, draws) ==
    vec_of_coverage(best_fit(rated_by_rate_coverage(
        cover_listing(dirs_and_files, ignored, stds, draws))))

\* rate_listing_by_stds(.., Standards::BestFit), on the result of its
\* rate_listing
rate_listing_by_stds(rated) == vec_of_rating(best_fit(rated))

\* the catalog of these calls and the paths of their listings
CatalogAll == {StdPlain, StdNested}
PathsAll == {l_src, l_docs, l_mod_sub_x, l_random_txt}
Listings == UNION {[1..n -> PathsAll] : n \in 0..MaxListing}
Draws(stds) == {d \in [DOMAIN stds -> UNION {HashOrders(stds[i]) : i \in DOMAIN stds}] :
                    \A i \in DOMAIN stds : d[i] \in HashOrders(stds[i])}

InitAll ==
    /\ STDS \in Perms(CatalogAll)
    /\ std \in CatalogAll
    /\ ignored_paths \in IgnorePatterns
    /\ listing \in Listings
    /\ checkers = <<>>
    /\ files = {}
    /\ rating_cont = None
    /\ ratings = <<>>
    /\ best = None
    /\ phase = "created"
    /\ coverages = None
    /\ MoreUnused

\* a call of cover_listing
CoverListing ==
    /\ coverages = None
    /\ \E draws \in Draws(STDS) :
           coverages' = Some(cover_listing(listing, ignored_paths, STDS, draws))
    /\ UNCHANGED <<std, ignored_paths, listing, checkers, files, rating_cont, ratings, best,
                   phase, STDS>>
    /\ UNCHANGED more_vars

\* a call of cover_listing_with for std: checkers is the Checker at the end
\* of the loop
CoverListingWith ==
    /\ checkers = <<>>
    /\ \E hash_orders \in HashOrders(std) :
           checkers' = cover_all((<<>> :> new_checker), std, ignored_paths, listing,
                                 hash_orders)
    /\ UNCHANGED <<std, ignored_paths, listing, files, rating_cont, ratings, best, phase,
                   STDS, coverages>>
    /\ UNCHANGED more_vars

\* a call of cover_listing_by_stds with Standards::BestFit
CoverListingByStds ==
    /\ rating_cont = None
    /\ \E draws \in Draws(STDS) :
           rating_cont' = Some(cover_listing_by_stds(listing, ignored_paths, STDS, draws))
    /\ UNCHANGED <<std, ignored_paths, listing, checkers, files, ratings, best, phase, STDS,
                   coverages>>
    /\ UNCHANGED more_vars

\* a call of rate_listing_by_stds with Standards::BestFit; ratings is the
\* result of its rate_listing
RateListingByStds ==
    /\ best = None
    /\ \E draws \in Draws(STDS), fs \in FileSystems :
        /\ files' = fs
        /\ ratings' = rate_listing(listing, ignored_paths, STDS, draws, fs)
        /\ best' = Some(rate_listing_by_stds(ratings'))
    /\ UNCHANGED <<std, ignored_paths, listing, checkers, rating_cont, phase, STDS,
                   coverages>>
    /\ UNCHANGED more_vars

NextAll == CoverListing \/ CoverListingWith \/ CoverListingByStds \/ RateListingByStds

SpecAll == InitAll /\ [][NextAll]_vars

(***************************************************************************)
(* What one cover call did, read off the Checkers before and after it.     *)
(***************************************************************************)
Last(q) == q[Len(q)]

\* the Checker named key without its cache of module patterns; the Checker
\* a module would get when there is none yet
Own(cks, key) ==
    IF key \in DOMAIN cks THEN [cks[key] EXCEPT !.module_rgxs = None] ELSE new_checker

\* the Checkers a call changed
Changed == {key \in DOMAIN checkers' : Own(checkers, key) # Own(checkers', key)}

RECURSIVE Handed(_, _, _)
\* the Checker a path ends at and what is left of the path there
Handed(cks, key, path) ==
    LET rgxs == Unwrap(cks[key].module_rgxs)
        k == first_match(rgxs, path)
    IN IF k = 0 THEN [key |-> key, path |-> path]
       ELSE Handed(cks, Append(key, Components(match_str(rgxs[k], path))),
                   replace_first(rgxs[k], path))

Covered == listing' # listing
Terminal == Handed(checkers', <<>>, Last(listing'))
Before == Own(checkers, Terminal.key)
After == Own(checkers', Terminal.key)
Viable == After.num_paths = Before.num_paths + 1

InRec(path) ==
    \E i \in DOMAIN tree_recs(std) :
        /\ IsSome(tree_recs(std)[i].path_regex)
        /\ is_match(Unwrap(tree_recs(std)[i].path_regex), path)
InArb(path) == any_match(create_arbitrary_content_rgxs(tree_recs(std)), path)
InGen(path) == any_match(create_generated_content_rgxs(tree_recs(std)), path)

\* the paths of the buckets of `in`
InPaths(c) == UNION {Range(c.in[r]) : r \in DOMAIN c.in}

(***************************************************************************)
(* C1: a cover call changes exactly one Checker, the one the path ends at  *)
(* (every Checker above it only delegates), and there it either appends    *)
(* the path to `ignored` or counts it in num_paths, never both.            *)
(***************************************************************************)
C1_OneOutcome ==
    [][Covered =>
        /\ Changed = {Terminal.key}
        /\ \/ /\ After.ignored = Append(Before.ignored, Terminal.path)
              /\ After.num_paths = Before.num_paths
           \/ /\ After.ignored = Before.ignored
              /\ After.num_paths = Before.num_paths + 1]_vars

\* a module got a path and counted it, and a path was ignored
C1_Witness ==
    /\ \E key \in DOMAIN checkers : key # <<>> /\ checkers[key].num_paths > 0
    /\ \E key \in DOMAIN checkers : checkers[key].ignored # <<>>

(***************************************************************************)
(* C2: a viable path is appended to `out` exactly when it matches no       *)
(* Record pattern, no arbitrary-content pattern and no generated-content   *)
(* pattern; otherwise it is appended to a bucket of `in`, to               *)
(* arbitrary_content or to generated_content, and `out` stays as it is.    *)
(* No path of `out` is in one of the other buckets.                        *)
(***************************************************************************)
C2_Step ==
    Covered /\ Viable =>
        /\ (After.out = Append(Before.out, Terminal.path))
               <=> ~(InRec(Terminal.path) \/ InArb(Terminal.path) \/ InGen(Terminal.path))
        /\ After.out # Append(Before.out, Terminal.path) =>
               /\ After.out = Before.out
               /\ \/ Terminal.path \in InPaths(After)
                  \/ After.arbitrary_content = Append(Before.arbitrary_content, Terminal.path)
                  \/ After.generated_content = Append(Before.generated_content, Terminal.path)
        /\ After.out = Append(Before.out, Terminal.path) =>
               /\ After.in = Before.in
               /\ After.arbitrary_content = Before.arbitrary_content
               /\ After.generated_content = Before.generated_content

C2_Apart ==
    \A key \in DOMAIN checkers :
        Range(checkers[key].out)
            \cap (InPaths(checkers[key]) \cup Range(checkers[key].arbitrary_content)
                      \cup Range(checkers[key].generated_content)) = {}

C2_OutIffUnmatched == []C2_Apart /\ [][C2_Step]_vars

\* one Checker holds a path in `out` and a path in a bucket of `in`
C2_Witness ==
    \E key \in DOMAIN checkers :
        /\ checkers[key].out # <<>>
        /\ InPaths(checkers[key]) # {}

Distinct(q) == \A i, j \in DOMAIN q : q[i] = q[j] => i = j

Reorderings(q) == {[i \in DOMAIN q |-> q[p[i]]] : p \in Perms(DOMAIN q)}

SameBuckets(c1, c2) ==
    /\ c1.num_paths = c2.num_paths
    /\ {r \in DOMAIN c1.in : c1.in[r] # <<>>} = {r \in DOMAIN c2.in : c2.in[r] # <<>>}
    /\ \A r \in DOMAIN c1.in \cap DOMAIN c2.in : Range(c1.in[r]) = Range(c2.in[r])
    /\ Range(c1.ignored) = Range(c2.ignored)
    /\ Range(c1.arbitrary_content) = Range(c2.arbitrary_content)
    /\ Range(c1.generated_content) = Range(c2.generated_content)
    /\ Range(c1.out) = Range(c2.out)

SameMembership(cov1, cov2) ==
    /\ DOMAIN cov1 = DOMAIN cov2
    /\ \A key \in DOMAIN cov1 \cap DOMAIN cov2 : SameBuckets(cov1[key], cov2[key])

C4_OrderIndependent ==
    Distinct(listing) =>
        \A dirs_and_files \in Reorderings(listing), hash_orders \in HashOrders(std) :
            SameMembership(cover_listing_with(dirs_and_files, ignored_paths, std, hash_orders),
                           coverage(checkers))

(***************************************************************************)
(* C5: for the Standard with the module Record parts/, the path            *)
(* parts/widget-a/src/ goes to the child Checker keyed at parts (the text  *)
(* the module pattern matched), the child gets the rest widget-a/src/ and  *)
(* classifies it against the same Standard (to `ignored` under the empty   *)
(* ignore pattern, else to `out`), and no other Checker changes: the       *)
(* parent's num_paths and buckets stay as they are.                        *)
(***************************************************************************)
\* widget-a/src/
l_widget_rest == <<"w", "i", "d", "g", "e", "t", "-", "a", "/", "s", "r", "c", "/">>
k_parts == <<<<s_parts>>>>
k_parts_widget == <<<<s_parts, <<"w", "i", "d", "g", "e", "t", "-", "a">>>>>>

C5_ModuleScenario ==
    [][std = StdParts /\ listing' = Append(listing, l_widget_src) =>
        /\ Own(checkers', <<>>) = Own(checkers, <<>>)
        /\ k_parts \in DOMAIN checkers'
        /\ Changed = {k_parts}
        /\ Own(checkers', k_parts) =
               IF ignored_paths = EmptyPattern
               THEN [Own(checkers, k_parts) EXCEPT !.ignored = Append(@, l_widget_rest)]
               ELSE [Own(checkers, k_parts) EXCEPT !.num_paths = @ + 1,
                                                   !.out = Append(@, l_widget_rest)]]_vars

\* parts/widget-a/src/ was covered by a Checker that had counted a path
C5_Witness ==
    /\ std = StdParts
    /\ Len(listing) >= 2
    /\ Last(listing) = l_widget_src
    /\ checkers[<<>>].num_paths > 0
    /\ l_widget_rest \in Range(checkers[k_parts].out)

\* C5 as the claim has it: the child is keyed at parts/widget-a and gets src/
C5_Original ==
    std = StdParts /\ listing = <<l_widget_src>> =>
        /\ k_parts_widget \in DOMAIN checkers
        /\ Own(checkers, <<>>) = new_checker
        /\ l_src_slash \in Range(Own(checkers, k_parts_widget).out)
                           \cup Range(Own(checkers, k_parts_widget).ignored)
                           \cup InPaths(Own(checkers, k_parts_widget))

(***************************************************************************)
(* C6: for the Standard with R1 = src/, R2 = docs/ and R3 = readme with    *)
(* the pattern readme(\.md)?, the default ignore pattern (which matches    *)
(* none of the paths) and the listing [src, src/main.rs, docs, readme.md,  *)
(* random.txt], the Checker ends with in = {R1: [src], R2: [docs],         *)
(* R3: [readme.md]}, out = [src/main.rs, random.txt] and nothing in        *)
(* `ignored`.                                                              *)
(***************************************************************************)
C6_EndToEnd ==
    std = StdPlain /\ ignored_paths = DEFAULT_IGNORED_PATHS /\ listing = ListingPlain =>
        /\ DOMAIN checkers = {<<>>}
        /\ checkers[<<>>].num_paths = 5
        /\ checkers[<<>>].in =
               (R_src :> <<l_src>>) @@ (R_docs :> <<l_docs>>) @@ (R_readme :> <<l_readme_md>>)
        /\ checkers[<<>>].out = <<l_main_rs, l_random_txt>>
        /\ checkers[<<>>].ignored = <<>>
        /\ checkers[<<>>].arbitrary_content = <<>>
        /\ checkers[<<>>].generated_content = <<>>

C6_Witness ==
    std = StdPlain /\ ignored_paths = DEFAULT_IGNORED_PATHS /\ listing = ListingPlain

\* C6 as the claim has it: the empty ignore pattern, directories with a
\* trailing separator
C6_Original ==
    std = StdPlain /\ ignored_paths = EmptyPattern /\ listing = ListingSlash =>
        /\ checkers[<<>>].in =
               (R_src :> <<l_src_slash>>) @@ (R_docs :> <<l_docs_slash>>)
                   @@ (R_readme :> <<l_readme_md>>)
        /\ checkers[<<>>].out = <<l_main_rs, l_random_txt>>
        /\ checkers[<<>>].ignored = <<>>

(***************************************************************************)
(* The rated Coverage.                                                     *)
(***************************************************************************)
Rated == IsSome(rating_cont)
RatedBy(by) == Rated /\ Unwrap(rating_cont).by = by
Factor == Unwrap(rating_cont).rating.factor
Cov == Unwrap(Unwrap(rating_cont).coverage)

\* the Records of the Standard that have a path in `in`
Matched(c) ==
    {i \in DOMAIN std.records :
        \E r \in DOMAIN c.in : r.path = std.records[i].path /\ c.in[r] # <<>>}

(***************************************************************************)
(* C7: Coverage::rate gives 0 for every Coverage (the root and every       *)
(* module) in whose `in` no Record has a path, whatever is in `out`.       *)
(***************************************************************************)
C7_ZeroWithoutRecord ==
    RatedBy("rate") =>
        \A key \in DOMAIN Cov :
            Matched(Cov[key]) = {} => rate(Cov, key, std, files) = QInt(0)

\* a rated Coverage without a matched Record, with a regular file in `out`
\* and a module that matched a Record
C7_Witness ==
    /\ RatedBy("rate")
    /\ Matched(Cov[<<>>]) = {}
    /\ \E i \in DOMAIN Cov[<<>>].out : Cov[<<>>].out[i] \in files
    /\ \E key \in DOMAIN Cov : Matched(Cov[key]) # {}
    /\ Factor = QInt(0)

(***************************************************************************)
(* C8: for every Coverage that matched at least one Record, rate() is the  *)
(* average of this level's own factor and the rate() of every direct       *)
(* module, each weighted with its own num_paths; for a Coverage that       *)
(* matched no Record, rate() is 0 whatever its modules rate to.            *)
(***************************************************************************)
\* this level's own factor, from its own buckets
OwnFactor(c) ==
    LET pos == QSum([i \in 1..Len(std.records) |->
                        IF i \in Matched(c) THEN std.records[i].indicativeness ELSE QInt(0)])
        neg == QMul(QInt(Cardinality({i \in DOMAIN c.out : c.out[i] \in files})),
                    QDiv(QSum([i \in 1..Len(std.records) |-> std.records[i].indicativeness]),
                         QInt(Len(std.records))))
    IN IF QLess(QInt(0), QAdd(pos, neg)) THEN QDiv(pos, QAdd(pos, neg)) ELSE pos

CombinedPaths(cov, key) ==
    cov[key].num_paths
        + SumSeq([i \in 1..Cardinality(modules(cov, key)) |->
                     cov[SeqOfSet(modules(cov, key))[i]].num_paths])

WeightedAverage(cov, key) ==
    LET mods == SeqOfSet(modules(cov, key))
    IN QDiv(QAdd(QMul(QInt(cov[key].num_paths), OwnFactor(cov[key])),
                 QSum([i \in DOMAIN mods |->
                          QMul(QInt(cov[mods[i]].num_paths),
                               rate(cov, mods[i], std, files))])),
            QInt(CombinedPaths(cov, key)))

C8_WeightedAverage ==
    RatedBy("rate") =>
        \A key \in DOMAIN Cov :
            rate(Cov, key, std, files) =
                IF Matched(Cov[key]) = {} THEN QInt(0) ELSE WeightedAverage(Cov, key)

\* a rated Coverage that matched a Record and has a module with paths that
\* rates differently
C8_Witness ==
    /\ RatedBy("rate")
    /\ Matched(Cov[<<>>]) # {}
    /\ \E key \in modules(Cov, <<>>) :
           /\ Cov[key].num_paths > 0
           /\ rate(Cov, key, std, files) # OwnFactor(Cov[<<>>])

\* C8 as the claim has it: the weighted average also when this level matched
\* no Record
C8_Original ==
    RatedBy("rate") =>
        \A key \in DOMAIN Cov :
            CombinedPaths(Cov, key) > 0 =>
                rate(Cov, key, std, files) = WeightedAverage(Cov, key)

(***************************************************************************)
(* C9: the factor of Coverage::rate and of Rating::rate_coverage is a      *)
(* number (no division by zero on the way to it) between 0 and 1, for the  *)
(* root and for every module.                                              *)
(***************************************************************************)
InUnit(f) == f # NotANumber /\ QLeq(QInt(0), f) /\ QLeq(f, QInt(1))

C10_FirstGreatest ==
    IsSome(best) /\ ratings # <<>> =>
        /\ Unwrap(best).ok
        /\ \E i \in DOMAIN ratings :
               /\ Unwrap(best).value = ratings[i]
               /\ \A j \in DOMAIN ratings :
                      QLeq(ratings[j].rating.factor, ratings[i].rating.factor)
               /\ \A j \in 1..(i - 1) :
                      /\ QLess(ratings[j].rating.factor, ratings[i].rating.factor)
                      /\ ratings[j] # ratings[i]

\* two entries that differ share the greatest factor, behind a smaller one
C10_Witness ==
    /\ IsSome(best)
    /\ Len(ratings) = 3
    /\ QLess(ratings[1].rating.factor, ratings[2].rating.factor)
    /\ ratings[2].rating.factor = ratings[3].rating.factor
    /\ ratings[2] # ratings[3]
    /\ Unwrap(best).value = ratings[2]

(***************************************************************************)
(* C11: best_fit gives the NoneViable error exactly for the empty list;    *)
(* for a list that is not empty and whose factors are all 0.0 it gives Ok  *)
(* with the first entry.                                                   *)
(***************************************************************************)
AllZero == \A i \in DOMAIN ratings : ratings[i].rating.factor = QInt(0)

C12_ErrorWithoutPositive ==
    IsSome(best) /\ (\A i \in DOMAIN ratings : ~QLess(QInt(0), ratings[i].rating.factor)) =>
        ~Unwrap(best).ok

(***************************************************************************)
(* C13: every composed path pattern matches without regard to letter case  *)
(* and only the whole path: a viable path that differs only in letter case *)
(* from a path the pattern of a Record matches is in the bucket of that    *)
(* Record, and a path in the bucket of a Record is matched as a whole.     *)
(***************************************************************************)
\* char::to_lowercase on the letters of the model's paths
to_lowercase(text) ==
    [i \in DOMAIN text |->
        CASE text[i] = "S" -> "s" [] text[i] = "R" -> "r" [] text[i] = "C" -> "c"
          [] OTHER -> text[i]]

\* the paths the Checker c counted in num_paths
ViablePaths(c) ==
    InPaths(c) \cup Range(c.arbitrary_content) \cup Range(c.generated_content)
        \cup Range(c.out)

InBucket(c, rec, path) == \E r \in DOMAIN c.in : r.path = rec.path /\ path \in Range(c.in[r])

C13_CaseInsensitiveWhole ==
    \A key \in DOMAIN checkers : \A p \in ViablePaths(checkers[key]) :
        \A i \in DOMAIN tree_recs(std) :
            LET rgx == Unwrap(tree_recs(std)[i].path_regex)
                rec == Unwrap(tree_recs(std)[i].value)
            IN /\ (\E q \in AllTexts : to_lowercase(q) = to_lowercase(p) /\ is_match(rgx, q))
                      => InBucket(checkers[key], rec, p)
               /\ InBucket(checkers[key], rec, p) => match_str(rgx, p) = p

HasBoth(rec) == IsSome(rec.variations) /\ IsSome(rec.regex)

C15_VariationsChosen ==
    \A i \in DOMAIN std.records :
        HasBoth(std.records[i]) /\ ~create_panics(std) =>
            /\ phase # "panicked"
            /\ phase = "created" =>
                   \A p \in ViablePaths(checkers[<<>>]) :
                       InBucket(checkers[<<>>], std.records[i], p)
                           <=> p \in Range(Unwrap(std.records[i].variations))

\* lic is one of the variations, licence matches the regex only
C15_Witness ==
    /\ \E i \in DOMAIN std.records : HasBoth(std.records[i])
    /\ phase = "created"
    /\ InBucket(checkers[<<>>], R_both, l_lic)
    /\ l_licence \in Range(checkers[<<>>].out)

\* C15 as stated: a Record with both is an error as one with neither is, so
\* no path is ever classified
C15_Original ==
    (\E i \in DOMAIN std.records : HasBoth(std.records[i])) => listing = <<>>

(***************************************************************************)
(* C16: in BestFit mode cover_listing_by_stds returns exactly one          *)
(* Coverage, the one whose Coverage::rate() is the greatest among all      *)
(* standards, and it is the Coverage of the standard that                  *)
(* rate_listing_by_stds returns in BestFit mode for the same listing and   *)
(* ignore pattern.                                                         *)
(***************************************************************************)
C16_SameBestFit ==
    IsSome(rating_cont) /\ IsSome(best) /\ Unwrap(rating_cont).ok /\ Unwrap(best).ok =>
        LET kept == Unwrap(rating_cont).value
            rated == Unwrap(best).value
        IN /\ Len(kept) = 1
           /\ Len(rated) = 1
           /\ kept[1].std = Unwrap(rated[1].coverage).std
           /\ \A i \in DOMAIN ratings :
                  QLeq(ratings[i].rating.factor,
                       rate(kept[1].cov, <<>>, kept[1].std, files))

(***************************************************************************)
(* C17: cover_listing returns exactly one Coverage per standard of the     *)
(* catalog, and the Coverage it returns for a standard equals the Coverage *)
(* cover_listing_with returns for that standard alone on the same listing  *)
(* and ignore pattern.                                                     *)
(***************************************************************************)
C17_SameAsAlone ==
    IsSome(coverages) /\ checkers # <<>> =>
        /\ Len(Unwrap(coverages)) = Len(STDS)
        /\ \A i \in DOMAIN STDS : Unwrap(coverages)[i].std = STDS[i]
        /\ \A i \in DOMAIN STDS :
               STDS[i] = std => Unwrap(coverages)[i].cov = coverage(checkers)

(***************************************************************************)
(* C18: a cover call whose path matches a module pattern leaves num_paths  *)
(* and every bucket of the delegating Checker as they were; the Checker    *)
(* named by the matched prefix is there afterwards and it alone, or a      *)
(* module below it, takes what is left of the path; the matched prefix and *)
(* what is left make up the path.                                          *)
(***************************************************************************)
RECURSIVE Delegations(_, _, _)
\* the delegations of one call, from the Checker named key downwards
Delegations(cks, key, path) ==
    LET rgxs == IF key \in DOMAIN cks /\ IsSome(cks[key].module_rgxs)
                THEN Unwrap(cks[key].module_rgxs)
                ELSE <<>>
        k == first_match(rgxs, path)
    IN IF k = 0 THEN <<>>
       ELSE LET prefix == match_str(rgxs[k], path)
                rest == replace_first(rgxs[k], path)
                child == Append(key, Components(prefix))
            IN <<[key |-> key, path |-> path, prefix |-> prefix, rest |-> rest,
                  child |-> child]>> \o Delegations(cks, child, rest)

C18_DelegationLeavesParent ==
    [][Covered =>
        LET ds == Delegations(checkers', <<>>, Last(listing'))
        IN \A i \in DOMAIN ds :
            /\ Own(checkers', ds[i].key) = Own(checkers, ds[i].key)
            /\ ds[i].prefix \o ds[i].rest = ds[i].path
            /\ ds[i].child \in DOMAIN checkers'
            /\ Changed # {}
            /\ \A key \in Changed : IsPrefix(ds[i].child, key)
            /\ i = Len(ds) =>
                   LET before == Own(checkers, ds[i].child)
                       after == Own(checkers', ds[i].child)
                   IN \/ after.ignored = Append(before.ignored, ds[i].rest)
                      \/ /\ after.num_paths = before.num_paths + 1
                         /\ ds[i].rest \in ViablePaths(after)]_vars

\* two paths went to modules and one of them was counted there, and the
\* root Checker is as it was created
C18_Witness ==
    /\ Len(listing) = 2
    /\ Own(checkers, <<>>) = new_checker
    /\ \E key \in DOMAIN checkers : key # <<>> /\ checkers[key].out # <<>>

(***************************************************************************)
(* C19: the module test comes before the ignore test, and the ignore test  *)
(* before the others: a path that matches a module pattern and the ignore  *)
(* pattern goes to the module and is not appended to `ignored` of the      *)
(* delegating Checker; a path that is ignored where it ends is appended to *)
(* `ignored` there and changes neither num_paths nor any other bucket.     *)
(***************************************************************************)
C19_ModuleThenIgnore ==
    [][Covered =>
        /\ \A i \in DOMAIN Delegations(checkers', <<>>, Last(listing')) :
               LET d == Delegations(checkers', <<>>, Last(listing'))[i]
               IN is_match(ignored_paths, d.path) =>
                      /\ Own(checkers', d.key).ignored = Own(checkers, d.key).ignored
                      /\ d.child \in DOMAIN checkers'
                      /\ Own(checkers', Terminal.key) # Own(checkers, Terminal.key)
                      /\ IsPrefix(d.child, Terminal.key)
        /\ is_match(ignored_paths, Terminal.path) =>
               After = [Before EXCEPT !.ignored = Append(@, Terminal.path)]]_vars

\* parts/x/.git matches the module pattern of parts/ and the default ignore
\* pattern: it was ignored in the module, not at the root
C19_Witness ==
    /\ l_parts_git \in Range(listing)
    /\ ignored_paths = DEFAULT_IGNORED_PATHS
    /\ checkers[<<>>].ignored = <<>>
    /\ \E key \in DOMAIN checkers :
           key # <<>> /\ <<"x", "/", ".", "g", "i", "t">> \in Range(checkers[key].ignored)

(***************************************************************************)
(* C20: a viable path is appended to the bucket of every Record whose      *)
(* composed pattern matches it and to no other bucket, and num_paths grows *)
(* by one however many Records match.                                      *)
(***************************************************************************)
Bucket(c, rec) ==
    IF \E r \in DOMAIN c.in : r.path = rec.path
    THEN c.in[CHOOSE r \in DOMAIN c.in : r.path = rec.path]
    ELSE <<>>

C20_EveryMatchingRecord ==
    [][Covered /\ ~is_match(ignored_paths, Terminal.path) =>
        /\ After.num_paths = Before.num_paths + 1
        /\ \A r \in DOMAIN After.in : \E i \in DOMAIN std.records : std.records[i].path = r.path
        /\ \A i \in DOMAIN tree_recs(std) :
               LET rec == Unwrap(tree_recs(std)[i].value)
                   rgx == Unwrap(tree_recs(std)[i].path_regex)
               IN Bucket(After, rec) =
                      IF is_match(rgx, Terminal.path)
                      THEN Append(Bucket(Before, rec), Terminal.path)
                      ELSE Bucket(Before, rec)]_vars

\* readme.md is in the buckets of two Records and was counted once
C20_Witness ==
    /\ listing = <<l_readme_md>>
    /\ phase = "created"
    /\ checkers[<<>>].num_paths = 1
    /\ Bucket(checkers[<<>>], R_readme) = <<l_readme_md>>
    /\ Bucket(checkers[<<>>], R_any_md) = <<l_readme_md>>

(***************************************************************************)
(* C21: the arbitrary-content patterns are tried only when no Record       *)
(* matched: a cover call that put the path into a bucket of `in` leaves    *)
(* arbitrary_content as it was, and a call that tries them appends the     *)
(* path to arbitrary_content at most once, however many of them match.     *)
(***************************************************************************)
C21_ArbitraryOnlyUnmatched ==
    [][Covered =>
          /\ After.in # Before.in => After.arbitrary_content = Before.arbitrary_content
          /\ \/ After.arbitrary_content = Before.arbitrary_content
             \/ After.arbitrary_content = Append(Before.arbitrary_content, Terminal.path)
          /\ After.arbitrary_content # Before.arbitrary_content
                 <=> /\ Viable
                     /\ ~InRec(Terminal.path)
                     /\ InArb(Terminal.path)]_vars

\* res/img is in the bucket of the Record res/img/ and not in
\* arbitrary_content, though the pattern of res/ matches it; res/img/x,
\* which two arbitrary-content patterns match, is in arbitrary_content once
C21_Witness ==
    /\ std = StdArb
    /\ listing = <<l_res_img, l_res_img_x>>
    /\ Cardinality({i \in DOMAIN create_arbitrary_content_rgxs(tree_recs(std)) :
                       is_match(create_arbitrary_content_rgxs(tree_recs(std))[i],
                                l_res_img_x)}) = 2
    /\ InArb(l_res_img)
    /\ InPaths(checkers[<<>>]) = {l_res_img}
    /\ checkers[<<>>].arbitrary_content = <<l_res_img_x>>

(***************************************************************************)
(* C22: when a Record matched, the own factor of a level (the one          *)
(* Coverage::rate computes before it averages the modules in, and the one  *)
(* Rating::rate_coverage returns) is pos / (pos + neg), with pos the sum   *)
(* of the indicativeness of the Records that have a path, neg the number   *)
(* of regular files in `out` times the average indicativeness of all       *)
(* Records; a directory in `out` does not lower the factor.                *)
(***************************************************************************)
C22_OwnFactorCountsFiles ==
    /\ RatedBy("rate") =>
           \A key \in DOMAIN Cov :
               Matched(Cov[key]) # {} =>
                   main_rating(Cov[key], std, files) = OwnFactor(Cov[key])
    /\ RatedBy("rate_coverage") =>
           \A key \in DOMAIN Cov :
               Matched(Cov[key]) # {} =>
                   rate_coverage(Cov, key, std) = OwnFactor(Cov[key])

(***************************************************************************)
(* tree::create, round by round, for a standard with its records in any    *)
(* order.                                                                  *)
(***************************************************************************)
TreeStds == {StdParts, StdNested, StdArb, StdGap}

InitTree ==
    /\ std \in UNION {{[name |-> s.name, records |-> p] : p \in Perms(Range(s.records))} :
                         s \in TreeStds}
    /\ ignored_paths = DEFAULT_IGNORED_PATHS
    /\ listing = <<>>
    /\ checkers = <<>>
    /\ files = {}
    /\ rating_cont = None
    /\ ratings = <<>>
    /\ best = None
    /\ phase = "loaded"
    /\ STDS = <<>>
    /\ coverages = None
    /\ MoreUnused

\* the path parts of the records are sorted by their number and the root
\* is made
CreateSort ==
    /\ records_tree = None
    /\ pp_recs_left' = sort_by_len(pp_recs_of(std.records))
    /\ records_tree' = Some([tree |-> (<<>> :> Node), rec_nodes |-> <<>>])
    /\ UNCHANGED <<std, ignored_paths, listing, checkers, files, rating_cont, ratings, best,
                   phase, STDS, coverages, lines, visited_dirs_cache, emitted, listing_res,
                   result, call_stack>>

\* one round of the loop: the next record gets its node and its pattern
CreateInsert ==
    /\ IsSome(records_tree)
    /\ pp_recs_left # <<>>
    /\ records_tree' = Some(add_record(Unwrap(records_tree), Head(pp_recs_left)))
    /\ pp_recs_left' = Tail(pp_recs_left)
    /\ UNCHANGED <<std, ignored_paths, listing, checkers, files, rating_cont, ratings, best,
                   phase, STDS, coverages, lines, visited_dirs_cache, emitted, listing_res,
                   result, call_stack>>

NextTree == CreateSort \/ CreateInsert

SpecTree == InitTree /\ [][NextTree]_vars

\* the loop of create is at its end
Created == IsSome(records_tree) /\ pp_recs_left = <<>>

\* the pattern of the node of a Record in what create made
PatternOf(made, rec) == made.tree[path_parts(rec)].path_regex

(***************************************************************************)
(* C23: the composed pattern of a node with a Record is the segment        *)
(* pattern of the Record (the variations as (a|b|c), else the regex) with  *)
(* the segment pattern of every ancestor that has a Record before it, from *)
(* the root down and joined by '/', nothing for an ancestor without a      *)
(* Record, and the whole in ^(?:...)$.                                     *)
(***************************************************************************)
Segment(rec) ==
    IF IsSome(rec.variations)
    THEN <<"(">> \o Join(Unwrap(rec.variations), <<"|">>) \o <<")">>
    ELSE Unwrap(rec.regex)

RECURSIVE ComposedFrom(_, _)
\* the segments from the k-th path part of rec down
ComposedFrom(rec, k) ==
    LET pps == path_parts(rec)
        here == {r \in Range(std.records) : path_parts(r) = SubSeq(pps, 1, k)}
    IN IF k >= Len(pps) THEN Segment(rec)
       ELSE IF here = {} THEN ComposedFrom(rec, k + 1)
       ELSE Segment(CHOOSE r \in here : TRUE) \o <<"/">> \o ComposedFrom(rec, k + 1)

C23_ComposedPattern ==
    IsSome(records_tree) =>
        \A n \in Range(Unwrap(records_tree).rec_nodes) :
            LET node == Unwrap(records_tree).tree[n]
            IN node.path_regex
                   = Some(<<"^", "(", "?", ":">> \o ComposedFrom(Unwrap(node.value), 1)
                              \o <<")", "$">>)

\* src/gen/doc has the pattern ^(?:(src)/(doc|docs))$: src/ has a Record,
\* src/gen has none
C23_Witness ==
    /\ Created
    /\ std.name = "gap"
    /\ Unwrap(records_tree).tree[<<s_src, s_gen>>].value = None
    /\ IsSome(Unwrap(records_tree).tree[<<s_src>>].value)
    /\ PatternOf(Unwrap(records_tree), R_src_gen_doc)
           = Some(<<"^", "(", "?", ":", "(", "s", "r", "c", ")", "/",
                    "(", "d", "o", "c", "|", "d", "o", "c", "s", ")", ")", "$">>)

MaxDepth == 3

DescendStds == {StdParts, StdNested, StdEvery}

InitDescend ==
    /\ std \in DescendStds
    /\ ignored_paths \in IgnorePatterns
    /\ listing = <<>>
    /\ checkers = (<<>> :> new_checker)
    /\ files = {}
    /\ rating_cont = None
    /\ ratings = <<>>
    /\ best = None
    /\ phase = "created"
    /\ STDS = <<>>
    /\ coverages = None
    /\ MoreUnused

\* cover is called on the root Checker with the next entry of the listing
CallCover ==
    /\ call_stack = <<>>
    /\ Len(listing) < MaxListing
    /\ \E dir_or_file \in PathsOf(std) :
        /\ listing' = Append(listing, dir_or_file)
        /\ call_stack' = <<[key |-> <<>>, dir_or_file |-> dir_or_file]>>
    /\ UNCHANGED <<std, ignored_paths, checkers, files, rating_cont, ratings, best, phase,
                   STDS, coverages, pp_recs_left, records_tree, lines, visited_dirs_cache,
                   emitted, listing_res, result>>

\* the innermost call: the module patterns are made when there are none, and
\* either the first that matches sends what is left of the path to the
\* Checker of the module, or the path is classified here
CoverStep ==
    /\ call_stack # <<>>
    /\ Len(call_stack) <= MaxDepth
    /\ \E hash_orders \in HashOrders(std) :
        LET top == call_stack[Len(call_stack)]
            cks1 == init_module_rgxs(checkers, top.key, hash_orders)
            rgxs == Unwrap(cks1[top.key].module_rgxs)
            k == first_match(rgxs, top.dir_or_file)
            child == Append(top.key, Components(match_str(rgxs[k], top.dir_or_file)))
        IN IF k # 0
           THEN /\ checkers' = or_insert(cks1, child)
                /\ call_stack' = Append(call_stack,
                                        [key |-> child,
                                         dir_or_file |-> replace_first(rgxs[k], top.dir_or_file)])
           ELSE /\ checkers' = cover_here(cks1, std, ignored_paths, top.key, top.dir_or_file)
                /\ call_stack' = <<>>
    /\ UNCHANGED <<std, ignored_paths, listing, files, rating_cont, ratings, best, phase,
                   STDS, coverages, pp_recs_left, records_tree, lines, visited_dirs_cache,
                   emitted, listing_res, result>>

NextDescend == CallCover \/ CoverStep

SpecDescend == InitDescend /\ [][NextDescend]_vars

(***************************************************************************)
(* C25: cover comes to an end for every path, through the delegation to    *)
(* modules too, because every delegation hands the Checker of the module   *)
(* a remainder that is strictly shorter than the path.                     *)
(***************************************************************************)
C25_ShorterRemainder ==
    [][Len(call_stack') > Len(call_stack) /\ call_stack # <<>> =>
          Len(call_stack'[Len(call_stack')].dir_or_file)
              < Len(call_stack[Len(call_stack)].dir_or_file)]_vars

(***************************************************************************)
(* cover_listing and cover_listing_with over a listing whose entries are   *)
(* Results: `dir_or_file_res?` returns the error of an entry at once.      *)
(* What the loops give is [ret, consumed]: the value returned and the      *)
(* number of entries taken from the iterator.                              *)
(***************************************************************************)
Ok(v) == [ok |-> v]
Err(e) == [err |-> e]
IsOk(r) == DOMAIN r = {"ok"}

RECURSIVE try_cover_all_skips(_, _, _, _, _, _)
\* try_cover_all that goes on to the next entry when one is an error
try_cover_all_skips(cks, std_raw, ignored, entries, hash_orders, n) ==
    IF n = Len(entries) THEN [ret |-> Ok(cks), consumed |-> n]
    ELSE IF IsOk(entries[n + 1])
    THEN try_cover_all_skips(cover(cks, std_raw, ignored, <<>>, entries[n + 1].ok, hash_orders),
                             std_raw, ignored, entries, hash_orders, n + 1)
    ELSE try_cover_all_skips(cks, std_raw, ignored, entries, hash_orders, n + 1)

RECURSIVE try_cover_all(_, _, _, _, _, _)
\* the loop of cover_listing_with, n entries taken so far
try_cover_all(cks, std_raw, ignored, entries, hash_orders, n) ==
    IF n = Len(entries) THEN [ret |-> Ok(cks), consumed |-> n]
    ELSE IF IsOk(entries[n + 1])
    THEN try_cover_all(cover(cks, std_raw, ignored, <<>>, entries[n + 1].ok, hash_orders),
                       std_raw, ignored, entries, hash_orders, n + 1)
    ELSE [ret |-> entries[n + 1], consumed |-> n + 1]

\* cover_listing_with: Ok(the Coverage of the Checker) at the end of the
\* listing
try_cover_listing_with(entries, ignored, std_raw, hash_orders) ==
    LET end == try_cover_all((<<>> :> new_checker), std_raw, ignored, entries, hash_orders, 0)
    IN IF IsOk(end.ret)
       THEN [ret |-> Ok(coverage(end.ret.ok)), consumed |-> end.consumed]
       ELSE end

RECURSIVE try_cover_listing_loop(_, _, _, _, _, _)
\* the outer loop of cover_listing, n entries taken so far
try_cover_listing_loop(cks_all, stds, ignored, entries, draws, n) ==
    IF n = Len(entries) THEN [ret |-> Ok(cks_all), consumed |-> n]
    ELSE IF IsOk(entries[n + 1])
    THEN try_cover_listing_loop(cover_by_all(cks_all, stds, ignored, entries[n + 1].ok, draws),
                                stds, ignored, entries, draws, n + 1)
    ELSE [ret |-> entries[n + 1], consumed |-> n + 1]

\* cover_listing: Ok(the Coverage of every Checker) at the end of the listing
try_cover_listing(entries, ignored, stds, draws) ==
    LET end == try_cover_listing_loop(new_all(stds), stds, ignored, entries, draws, 0)
    IN IF IsOk(end.ret)
       THEN [ret |-> Ok(coverages_of(end.ret.ok, stds)), consumed |-> end.consumed]
       ELSE end

\* the entries of the listings: two paths and two errors
Entries == {Ok(l_src), Ok(l_mod_sub_x), Err("broken pipe"), Err("invalid data")}
ListingsRes == UNION {[1..n -> Entries] : n \in 0..MaxListing}

InitFail ==
    /\ std \in CatalogAll
    /\ ignored_paths \in IgnorePatterns
    /\ listing = <<>>
    /\ checkers = <<>>
    /\ files = {}
    /\ rating_cont = None
    /\ ratings = <<>>
    /\ best = None
    /\ phase = "created"
    /\ STDS = <<StdPlain, StdNested>>
    /\ coverages = None
    /\ pp_recs_left = <<>>
    /\ records_tree = None
    /\ lines = <<>>
    /\ visited_dirs_cache = {}
    /\ emitted = <<>>
    /\ listing_res \in ListingsRes
    /\ result = None
    /\ call_stack = <<>>

\* a call of cover_listing_with for std
TryCoverListingWith ==
    /\ result = None
    /\ \E hash_orders \in HashOrders(std) :
           result' = Some([by |-> "cover_listing_with",
                           call |-> try_cover_listing_with(listing_res, ignored_paths, std,
                                                           hash_orders)])
    /\ UNCHANGED <<std, ignored_paths, listing, checkers, files, rating_cont, ratings, best,
                   phase, STDS, coverages, pp_recs_left, records_tree, lines,
                   visited_dirs_cache, emitted, listing_res, call_stack>>

\* a call of cover_listing
TryCoverListing ==
    /\ result = None
    /\ \E draws \in Draws(STDS) :
           result' = Some([by |-> "cover_listing",
                           call |-> try_cover_listing(listing_res, ignored_paths, STDS, draws)])
    /\ UNCHANGED <<std, ignored_paths, listing, checkers, files, rating_cont, ratings, best,
                   phase, STDS, coverages, pp_recs_left, records_tree, lines,
                   visited_dirs_cache, emitted, listing_res, call_stack>>

NextFail == TryCoverListingWith \/ TryCoverListing

SpecFail == InitFail /\ [][NextFail]_vars

\* the places of the errors in the listing
Errors == {i \in DOMAIN listing_res : ~IsOk(listing_res[i])}
FirstError == CHOOSE i \in Errors : \A j \in Errors : i <= j

(***************************************************************************)
(* C26: when an entry of the listing is an error, cover_listing and        *)
(* cover_listing_with return the first error as it is and no Coverage, and *)
(* take no entry behind it from the listing.                               *)
(***************************************************************************)
C26_FirstErrorReturned ==
    IsSome(result) =>
        IF Errors = {}
        THEN /\ IsOk(Unwrap(result).call.ret)
             /\ Unwrap(result).call.consumed = Len(listing_res)
        ELSE /\ Unwrap(result).call.ret = listing_res[FirstError]
             /\ Unwrap(result).call.consumed = FirstError

\* cover_listing returned the first of two errors and left the second in
\* the listing
C26_Witness ==
    /\ IsSome(result)
    /\ Unwrap(result).by = "cover_listing"
    /\ listing_res = <<Err("invalid data"), Err("broken pipe")>>
    /\ Unwrap(result).call = [ret |-> Err("invalid data"), consumed |-> 1]

(***************************************************************************)
(* C27: after n cover calls on the root Checker, the sum of num_paths and  *)
(* of the length of `ignored` over the Coverage of the root and of every   *)
(* module at every depth is n; num_paths of each level is the number of    *)
(* cover calls that ended at it and were not ignored; and `modules` has    *)
(* one nested Coverage for each module directory a path was handed to.     *)
(***************************************************************************)
\* where each entry of the listing ended: the Checker and what was left of
\* the path
Ends == [i \in DOMAIN listing |-> Handed(checkers, <<>>, listing[i])]

\* the module directories the entries of the listing went through
ModuleRoots ==
    UNION {{d.child : d \in Range(Delegations(checkers, <<>>, listing[i]))} :
              i \in DOMAIN listing}

C27_Conservation ==
    LET cov == coverage(checkers)
        keys == SeqOfSet(DOMAIN cov)
    IN /\ SumSeq([i \in DOMAIN keys |->
                     cov[keys[i]].num_paths + Len(cov[keys[i]].ignored)]) = Len(listing)
       /\ \A key \in DOMAIN cov :
              /\ cov[key].num_paths
                     = Cardinality({i \in DOMAIN listing :
                                       /\ Ends[i].key = key
                                       /\ ~is_match(ignored_paths, Ends[i].path)})
              /\ Len(cov[key].ignored)
                     = Cardinality({i \in DOMAIN listing :
                                       /\ Ends[i].key = key
                                       /\ is_match(ignored_paths, Ends[i].path)})
       /\ DOMAIN cov = {<<>>} \cup ModuleRoots

\* two paths went to the same module: one is ignored there, one is counted
C27_Witness ==
    /\ Len(listing) = 2
    /\ \E key \in DOMAIN checkers :
           /\ key # <<>>
           /\ checkers[key].num_paths = 1
           /\ Len(checkers[key].ignored) = 1

(***************************************************************************)
(* C28: two runs over the same listing, with the same Standard and the     *)
(* same ignore pattern, give the same Coverage, with the same module keys, *)
(* also when a path matches more than one module pattern: the first match  *)
(* does not depend on the order in which the HashMap gives the patterns    *)
(* back.                                                                   *)
(***************************************************************************)
C28_SameInEveryRun ==
    \A hash_orders \in HashOrders(std) :
        cover_listing_with(listing, ignored_paths, std, hash_orders) = coverage(checkers)

(***************************************************************************)
(* The listing pre-processor of main.rs, dirs_and_files: the lines of the  *)
(* listing stream, without comments and empty lines, go through            *)
(* line_to_path_res and DirsAdder::call_mut.                               *)
(***************************************************************************)
\* the most lines read from a listing stream
MaxLines == 3

EMPTY_PATH == <<>>

starts_with(line, prefix) ==
    Len(line) >= Len(prefix) /\ SubSeq(line, 1, Len(prefix)) = prefix

\* String::pop: the last character goes, nothing happens to the empty string
pop(line) == IF line = <<>> THEN line ELSE SubSeq(line, 1, Len(line) - 1)

\* the filter of dirs_and_files: an error stays, a line stays unless it is
\* a comment or empty
no_comment(line_res) ==
    IsOk(line_res) => ~(starts_with(line_res.ok, <<"#">>) \/ line_res.ok = <<>>)

line_to_path_res(res_line) ==
    IF ~IsOk(res_line) THEN res_line
    ELSE IF starts_with(res_line.ok, <<".", "/">>) \/ starts_with(res_line.ok, <<".", "\\">>)
    THEN Ok(pop(pop(res_line.ok)))
    ELSE res_line

\* Path::ancestors: the path, then the path without its last component, and
\* so on down to the empty path
ancestors(path) ==
    <<path>> \o [k \in 1..Len(Components(path)) |->
                    Join(SubSeq(Components(path), 1, Len(Components(path)) - k), <<"/">>)]

RECURSIVE insert_all(_, _, _)
\* the paths go through .filter(|ancestor| visited_dirs_cache.insert(..)) one
\* after the other: [visited_dirs_cache, out]
insert_all(cache, paths, out) ==
    IF paths = <<>> THEN [visited_dirs_cache |-> cache, out |-> out]
    ELSE IF Components(Head(paths)) \in cache
    THEN insert_all(cache, Tail(paths), out)
    ELSE insert_all(cache \cup {Components(Head(paths))}, Tail(paths),
                    Append(out, Ok(Head(paths))))

\* call_mut without the filter of the visited paths
call_mut_unfiltered(cache, path_res) ==
    IF IsOk(path_res)
    THEN LET given == SelectSeq(ancestors(path_res.ok),
                                LAMBDA ancestor : Components(ancestor) # Components(EMPTY_PATH))
         IN [visited_dirs_cache |-> cache \cup {Components(given[i]) : i \in DOMAIN given},
             out |-> [i \in DOMAIN given |-> Ok(given[i])]]
    ELSE [visited_dirs_cache |-> cache, out |-> <<path_res>>]

\* DirsAdder::call_mut: [visited_dirs_cache, out]
call_mut(cache, path_res) ==
    IF IsOk(path_res)
    THEN insert_all(cache,
                    SelectSeq(ancestors(path_res.ok),
                              LAMBDA ancestor : Components(ancestor) # Components(EMPTY_PATH)),
                    <<>>)
    ELSE [visited_dirs_cache |-> cache, out |-> <<path_res>>]

\* the lines a listing stream gives: paths with and without "./" in front,
\* "./" alone, a directory with its separator, a comment, an empty line, and
\* an error
Lines ==
    {Ok(l_main_rs), Ok(l_src_slash), Ok(<<".", "/">> \o l_src), Ok(<<".", "/">>),
     Ok(<<".", "\\">> \o l_src), Ok(<<"#", "x">>), Ok(<<>>), Err("broken pipe")}

InitPre ==
    /\ std \in {StdPlain}
    /\ ignored_paths = DEFAULT_IGNORED_PATHS
    /\ listing = <<>>
    /\ checkers = <<>>
    /\ files = {}
    /\ rating_cont = None
    /\ ratings = <<>>
    /\ best = None
    /\ phase = "loaded"
    /\ STDS = <<>>
    /\ coverages = None
    /\ MoreUnused

\* the next line is taken from the stream
NextLine ==
    /\ Len(lines) < MaxLines
    /\ \E res_line \in Lines :
        /\ lines' = Append(lines, res_line)
        /\ IF no_comment(res_line)
           THEN /\ emitted'
                       = emitted \o call_mut(visited_dirs_cache, line_to_path_res(res_line)).out
                /\ visited_dirs_cache'
                       = call_mut(visited_dirs_cache,
                                  line_to_path_res(res_line)).visited_dirs_cache
           ELSE UNCHANGED <<emitted, visited_dirs_cache>>
    /\ UNCHANGED <<std, ignored_paths, listing, checkers, files, rating_cont, ratings, best,
                   phase, STDS, coverages, pp_recs_left, records_tree, listing_res, result,
                   call_stack>>

NextPre == NextLine

SpecPre == InitPre /\ [][NextPre]_vars

\* what DirsAdder::call_mut was called with
PathRess ==
    LET kept == SelectSeq(lines, no_comment)
    IN [i \in DOMAIN kept |-> line_to_path_res(kept[i])]

\* the paths given so far and the paths handed in, by their components
\* (PathBuf equality)
EmittedPaths == {Components(emitted[i].ok) : i \in {j \in DOMAIN emitted : IsOk(emitted[j])}}
InputPaths == {PathRess[i].ok : i \in {j \in DOMAIN PathRess : IsOk(PathRess[j])}}
WithAncestors == UNION {{Components(a) : a \in Range(ancestors(p))} : p \in InputPaths}

(***************************************************************************)
(* C29: DirsAdder gives every path handed in and every ancestor of it,     *)
(* but for the empty path, and gives no path twice in a run: the paths     *)
(* given so far are pairwise different and are the paths handed in and     *)
(* their ancestors, the empty path left out; an error goes through as it   *)
(* is and adds nothing to the cache of visited paths.                      *)
(***************************************************************************)
C29_EmitsOnce ==
    /\ \A i, j \in DOMAIN emitted :
           IsOk(emitted[i]) /\ IsOk(emitted[j])
               /\ Components(emitted[i].ok) = Components(emitted[j].ok) => i = j
    /\ EmittedPaths = WithAncestors \ {Components(EMPTY_PATH)}
    /\ SelectSeq(emitted, LAMBDA e : ~IsOk(e)) = SelectSeq(PathRess, LAMBDA e : ~IsOk(e))
    /\ visited_dirs_cache = EmittedPaths

\* src/main.rs gave itself and src; the error went through; src/ gave
\* nothing, src was given before
C29_Witness ==
    /\ lines = <<Ok(l_main_rs), Err("broken pipe"), Ok(l_src_slash)>>
    /\ emitted = <<Ok(l_main_rs), Ok(l_src), Err("broken pipe")>>
    /\ visited_dirs_cache = {Components(l_main_rs), Components(l_src)}

\* C29 as the claim has it: every path handed in is given, the empty path
\* too
C29_Original ==
    /\ \A i, j \in DOMAIN emitted :
           IsOk(emitted[i]) /\ IsOk(emitted[j])
               /\ Components(emitted[i].ok) = Components(emitted[j].ok) => i = j
    /\ EmittedPaths
           = {Components(p) : p \in InputPaths} \cup (WithAncestors \ {Components(EMPTY_PATH)})
    /\ SelectSeq(emitted, LAMBDA e : ~IsOk(e)) = SelectSeq(PathRess, LAMBDA e : ~IsOk(e))
    /\ visited_dirs_cache = EmittedPaths

(***************************************************************************)
(* C30: line_to_path_res takes "./" or ".\" off the front of a line and    *)
(* leaves the rest of the line as it is: the path of the line "./" + rest  *)
(* is rest, and a line without such a prefix is its own path.              *)
(***************************************************************************)
C30_PrefixRemoved ==
    \A i \in DOMAIN lines :
        IsOk(lines[i]) =>
            line_to_path_res(lines[i])
                = IF starts_with(lines[i].ok, <<".", "/">>)
                      \/ starts_with(lines[i].ok, <<".", "\\">>)
                  THEN Ok(SubSeq(lines[i].ok, 3, Len(lines[i].ok)))
                  ELSE lines[i]

====
